---- MODULE Spec2Model ----
(***************************************************************************)
(* memvectordb: the in-memory store (db.rs, model.rs) and the replay of    *)
(* output.log at startup (replay_log.rs).                                  *)
(*                                                                         *)
(* Floats are fixed-point integers: Scale stands for 1.0.  A HashMap id is *)
(* kept as the sequence of its (key, value) pairs in the enumeration order *)
(* of that map instance; the mapping itself is the set of the pairs.       *)
(***************************************************************************)
EXTENDS Integers, Sequences, FiniteSets, TLC

\* ------------------------------------------------------------------ bounds
MaxDim == 1
MaxEmb == 2
MaxBatch == 2
MaxLogLen == 4
MaxBatchLen == 3
MaxBatchStore == 3
MaxQueryStore == 3
MaxK == 4
MaxTasks == 2
MaxRequests == 4
MaxStartupLog == 3

Scale == 1000

\* ------------------------------------------------------------- data model
Names == {"A", "B"}
Distances == {"Euclidean", "Cosine", "DotProduct"}
Dims == 0..MaxDim

NoMetadata == [some |-> FALSE, map |-> {}]
SomeMetadata(m) == [some |-> TRUE, map |-> m]

Embedding(id, vector, metadata) == [id |-> id, vector |-> vector, metadata |-> metadata]

Collection(dimension, distance, embeddings) ==
  [present |-> TRUE, dimension |-> dimension, distance |-> distance, embeddings |-> embeddings]

\* Option::None of get_collection / get_embeddings, and a name the map lacks.
Absent == [present |-> FALSE, dimension |-> 0, distance |-> "", embeddings |-> <<>>]

\* CacheDB::new()
NewDB == [n \in Names |-> Absent]

\* The id mapping as an unordered key-value set (HashMap equality).
IdMap(id) == {id[i] : i \in DOMAIN id}

\* Embedding's derived PartialEq: maps compared as maps, vectors elementwise.
EmbeddingEq(a, b) ==
  IdMap(a.id) = IdMap(b.id) /\ a.vector = b.vector /\ a.metadata = b.metadata

\* --------------------------------------------------------------- inputs
\* Ids: two single-key ids and one two-key id in both enumeration orders.
IdSeqs ==
  { << <<"unique_id", "0">> >>,
    << <<"unique_id", "0">>, <<"doc", "x">> >>,
    << <<"doc", "x">>, <<"unique_id", "0">> >> }

Comps == {2 * Scale}
Vectors == UNION {[1..n -> Comps] : n \in 0..MaxDim}
Metadatas == {SomeMetadata({<<"page", "1">>})}
Embeddings == {Embedding(i, v, m) : i \in IdSeqs, v \in Vectors, m \in Metadatas}

RECURSIVE SeqsUpTo(_, _)
SeqsUpTo(S, n) ==
  IF n = 0 THEN {<<>>}
  ELSE LET shorter == SeqsUpTo(S, n - 1)
       IN shorter \cup {Append(s, x) : s \in {t \in shorter : Len(t) = n - 1}, x \in S}

Batches == SeqsUpTo(Embeddings, MaxBatch)

\* ------------------------------------------------------------ output.log
\* Text is a sequence of tokens: a literal fragment or value string (lit), or
\* a printed number (lit = "#", num the number).  "TS" is a timestamp
\* YYYY-MM-DD HH:MM:SS.
Tok(l) == [lit |-> l, num |-> 0]
Num(n) == [lit |-> "#", num |-> n]

\* Display of a usize: its decimal digits.
DecimalWords == <<"0", "1", "2", "3">>
Decimal(n) == Tok(DecimalWords[n + 1])

\* The logger's line format "{} [{}] {}": timestamp, level, message.
LogLine(level, message) == <<Tok("TS"), Tok(level)>> \o message

RECURSIVE Join(_, _)
\* The pieces of a sequence of token sequences, separated by sep.
Join(pieces, sep) ==
  IF pieces = <<>> THEN <<>>
  ELSE IF Len(pieces) = 1 THEN pieces[1]
  ELSE pieces[1] \o <<sep>> \o Join(Tail(pieces), sep)

\* {:?} of a HashMap<String, String>, pairs in enumeration order.
MapDebug(pairs) ==
  Join([i \in DOMAIN pairs |->
          <<Tok("\""), Tok(pairs[i][1]), Tok("\": \""), Tok(pairs[i][2]), Tok("\"")>>],
       Tok(", "))

\* {:?} of a Vec<f32>.
VecDebug(vector) == Join([i \in DOMAIN vector |-> <<Num(vector[i])>>], Tok(", "))

\* The messages the store writes at level Info or above.
CreatedMsg(name) ==
  <<Tok("Created new collection"), Tok(" with name: '"), Tok(name), Tok("'")>>
ExistsMsg(name) == <<Tok("Collection: '"), Tok(name), Tok("', already exists")>>
DeletedMsg(name) ==
  <<Tok("Deleted collection"), Tok(" with name: '"), Tok(name), Tok("'")>>
NotExistMsg(name) == <<Tok("Collection name: '"), Tok(name), Tok("', does not exist")>>
DuplicateMsg(id, name) ==
  <<Tok("Embedding with ID '{")>> \o MapDebug(id)
    \o <<Tok("}' already exists in collection '"), Tok(name), Tok("'")>>
MismatchMsg(len, name, dimension) ==
  <<Tok("Dimension mismatch: embedding vector length is '"), Decimal(len),
    Tok("' but collection '"), Tok(name), Tok("' expects dimension '"),
    Decimal(dimension), Tok("'")>>
InsertedMsg(name) ==
  <<Tok("Embedding "), Tok("successfully inserted into collection"),
    Tok(" '"), Tok(name), Tok("'")>>
UpdatedMsg(name) ==
  <<Tok("Embedding "), Tok("successfully updated to collection"),
    Tok(" '"), Tok(name), Tok("'")>>
FoundMsg(name) == <<Tok("Collection '"), Tok(name), Tok("' found")>>
NotFoundMsg(name) == <<Tok("Collection '"), Tok(name), Tok("' not found")>>
RetrievedMsg(name) ==
  <<Tok("Successfully retrieved embeddings for collection '"), Tok(name), Tok("'")>>

\* ------------------------------------------------------------- similarity
RECURSIVE SqrtBetween(_, _, _)
\* The largest r in lo..hi with r * r <= n.
SqrtBetween(n, lo, hi) ==
  IF lo >= hi THEN lo
  ELSE LET mid == (lo + hi + 1) \div 2
       IN IF mid * mid <= n THEN SqrtBetween(n, mid, hi) ELSE SqrtBetween(n, lo, mid - 1)

RECURSIVE SumSquares(_)
SumSquares(v) == IF v = <<>> THEN 0 ELSE v[1] * v[1] + SumSquares(Tail(v))

RECURSIVE SumAbs(_)
SumAbs(v) ==
  IF v = <<>> THEN 0 ELSE (IF v[1] >= 0 THEN v[1] ELSE -v[1]) + SumAbs(Tail(v))

\* ||v||, in units of Scale (at most the sum of the magnitudes).
Norm(v) == SqrtBetween(SumSquares(v), 0, SumAbs(v))

\* v / ||v||; the zero vector when ||v|| is zero.
normalize(v) ==
  LET norm == Norm(v)
  IN IF norm = 0 THEN [i \in DOMAIN v |-> 0]
     ELSE [i \in DOMAIN v |->
             IF v[i] >= 0 THEN (v[i] * Scale) \div norm
             ELSE -(((-v[i]) * Scale) \div norm)]

\* ------------------------------------------------------------------ store
RECURSIVE FeedPairs(_)
\* What the loop of hash_map_id writes to the hasher: key, value, key, value,
\* ... in the map's enumeration order.
FeedPairs(id) ==
  IF id = <<>> THEN <<>> ELSE <<id[1][1], id[1][2]>> \o FeedPairs(Tail(id))

\* DefaultHasher::new() has fixed keys: the u64 is a function of the byte
\* stream alone, taken here as collision-free on it.
hash_map_id(id) == FeedPairs(id)

\* The HashSet<u64> built from the stored embeddings.
unique_ids(collection) ==
  {hash_map_id(collection.embeddings[i].id) : i \in DOMAIN collection.embeddings}

Outcome(db, res, lines, ret) == [db |-> db, res |-> res, lines |-> lines, ret |-> ret]

\* Variants of the store operations, each with one check or effect of the
\* code changed; the properties below are also run against them.
\* create_collection without the contains_key check: insert() overwrites.
create_collection_Unchecked(db, name, dimension, distance) ==
  LET collection == Collection(dimension, distance, <<>>)
  IN Outcome([db EXCEPT ![name] = collection], "Ok",
             <<LogLine("[INFO]", CreatedMsg(name))>>, collection)

create_collection(db, name, dimension, distance) ==
  IF db[name].present
  THEN Outcome(db, "UniqueViolation", <<LogLine("[ERROR]", ExistsMsg(name))>>, Absent)
  ELSE LET collection == Collection(dimension, distance, <<>>)
       IN Outcome([db EXCEPT ![name] = collection], "Ok",
                  <<LogLine("[INFO]", CreatedMsg(name))>>, collection)

\* delete_collection that empties the collection and keeps its entry.
delete_collection_EmptiesOnly(db, name) ==
  IF ~db[name].present
  THEN Outcome(db, "NotFound", <<LogLine("[ERROR]", NotExistMsg(name))>>, Absent)
  ELSE Outcome([db EXCEPT ![name].embeddings = <<>>], "Ok",
               <<LogLine("[INFO]", DeletedMsg(name))>>, Absent)

\* delete_collection without the contains_key check: remove() of a missing key.
delete_collection_Unchecked(db, name) ==
  Outcome([db EXCEPT ![name] = Absent], "Ok",
          <<LogLine("[INFO]", DeletedMsg(name))>>, Absent)

\* delete_collection that clears the whole map.
delete_collection_DropsAll(db, name) ==
  IF ~db[name].present
  THEN Outcome(db, "NotFound", <<LogLine("[ERROR]", NotExistMsg(name))>>, Absent)
  ELSE Outcome(NewDB, "Ok", <<LogLine("[INFO]", DeletedMsg(name))>>, Absent)

delete_collection(db, name) ==
  IF ~db[name].present
  THEN Outcome(db, "NotFound", <<LogLine("[ERROR]", NotExistMsg(name))>>, Absent)
  ELSE Outcome([db EXCEPT ![name] = Absent], "Ok",
               <<LogLine("[INFO]", DeletedMsg(name))>>, Absent)

\* The shared body of the insert without the dimension check.
PushChecked_NoDimensionCheck(collection, name, embedding, dup) ==
  IF hash_map_id(embedding.id) \in unique_ids(collection)
  THEN [collection |-> collection, res |-> dup,
        lines |-> <<LogLine("[ERROR]", DuplicateMsg(embedding.id, name))>>]
  ELSE LET stored == IF collection.distance = "Cosine"
                     THEN [embedding EXCEPT !.vector = normalize(embedding.vector)]
                     ELSE embedding
       IN [collection |-> [collection EXCEPT !.embeddings = Append(@, stored)],
           res |-> "", lines |-> <<>>]

\* The shared body of the insert normalising under every distance.
PushChecked_AlwaysNormalizes(collection, name, embedding, dup) ==
  IF hash_map_id(embedding.id) \in unique_ids(collection)
  THEN [collection |-> collection, res |-> dup,
        lines |-> <<LogLine("[ERROR]", DuplicateMsg(embedding.id, name))>>]
  ELSE IF Len(embedding.vector) # collection.dimension
  THEN [collection |-> collection, res |-> "DimensionMismatch",
        lines |-> <<LogLine("[ERROR]",
                      MismatchMsg(Len(embedding.vector), name, collection.dimension))>>]
  ELSE LET stored == [embedding EXCEPT !.vector = normalize(embedding.vector)]
       IN [collection |-> [collection EXCEPT !.embeddings = Append(@, stored)],
           res |-> "", lines |-> <<>>]

\* The shared body of the insert with insert(0, ..) for push.
PushChecked_Prepends(collection, name, embedding, dup) ==
  IF hash_map_id(embedding.id) \in unique_ids(collection)
  THEN [collection |-> collection, res |-> dup,
        lines |-> <<LogLine("[ERROR]", DuplicateMsg(embedding.id, name))>>]
  ELSE IF Len(embedding.vector) # collection.dimension
  THEN [collection |-> collection, res |-> "DimensionMismatch",
        lines |-> <<LogLine("[ERROR]",
                      MismatchMsg(Len(embedding.vector), name, collection.dimension))>>]
  ELSE LET stored == IF collection.distance = "Cosine"
                     THEN [embedding EXCEPT !.vector = normalize(embedding.vector)]
                     ELSE embedding
       IN [collection |-> [collection EXCEPT !.embeddings = <<stored>> \o @],
           res |-> "", lines |-> <<>>]

\* The shared body of the insert without the normalisation.
PushChecked_NeverNormalizes(collection, name, embedding, dup) ==
  IF hash_map_id(embedding.id) \in unique_ids(collection)
  THEN [collection |-> collection, res |-> dup,
        lines |-> <<LogLine("[ERROR]", DuplicateMsg(embedding.id, name))>>]
  ELSE IF Len(embedding.vector) # collection.dimension
  THEN [collection |-> collection, res |-> "DimensionMismatch",
        lines |-> <<LogLine("[ERROR]",
                      MismatchMsg(Len(embedding.vector), name, collection.dimension))>>]
  ELSE [collection |-> [collection EXCEPT !.embeddings = Append(@, embedding)],
        res |-> "", lines |-> <<>>]

\* The body shared by insert_into_collection and by one turn of the loop of
\* update_collection, after the collection is resolved: "" when the embedding
\* was pushed, else the failed check.  dup is the error of the id check.
PushChecked(collection, name, embedding, dup) ==
  IF hash_map_id(embedding.id) \in unique_ids(collection)
  THEN [collection |-> collection, res |-> dup,
        lines |-> <<LogLine("[ERROR]", DuplicateMsg(embedding.id, name))>>]
  ELSE IF Len(embedding.vector) # collection.dimension
  THEN [collection |-> collection, res |-> "DimensionMismatch",
        lines |-> <<LogLine("[ERROR]",
                      MismatchMsg(Len(embedding.vector), name, collection.dimension))>>]
  ELSE LET stored == IF collection.distance = "Cosine"
                     THEN [embedding EXCEPT !.vector = normalize(embedding.vector)]
                     ELSE embedding
       IN [collection |-> [collection EXCEPT !.embeddings = Append(@, stored)],
           res |-> "", lines |-> <<>>]

\* insert_into_collection with entry().or_insert_with for the lookup: a
\* missing collection is made on the fly.
insert_into_collection_CreatesMissing(db, collection_name, embedding) ==
  LET found == IF db[collection_name].present THEN db[collection_name]
               ELSE Collection(Len(embedding.vector), "Euclidean", <<>>)
      step == PushChecked(found, collection_name, embedding, "EmbeddingUniqueViolation")
  IN IF step.res # ""
     THEN Outcome(db, step.res, step.lines, Absent)
     ELSE Outcome([db EXCEPT ![collection_name] = step.collection], "Ok",
                  <<LogLine("[INFO]", InsertedMsg(collection_name))>>, Absent)

insert_into_collection(db, collection_name, embedding) ==
  IF ~db[collection_name].present
  THEN Outcome(db, "NotFound", <<>>, Absent)
  ELSE LET step == PushChecked(db[collection_name], collection_name, embedding,
                               "EmbeddingUniqueViolation")
       IN IF step.res # ""
          THEN Outcome(db, step.res, step.lines, Absent)
          ELSE Outcome([db EXCEPT ![collection_name] = step.collection], "Ok",
                       <<LogLine("[INFO]", InsertedMsg(collection_name))>>, Absent)

RECURSIVE UpdateLoop(_, _, _)
\* The for loop of update_collection: returns at the first failing item,
\* keeping what was pushed before it.
UpdateLoop(collection, name, new_embeddings) ==
  IF new_embeddings = <<>>
  THEN [collection |-> collection, res |-> "Ok",
        lines |-> <<LogLine("[INFO]", UpdatedMsg(name))>>]
  ELSE LET step == PushChecked(collection, name, new_embeddings[1], "UniqueViolation")
       IN IF step.res # ""
          THEN step
          ELSE UpdateLoop(step.collection, name, Tail(new_embeddings))

\* update_collection working on a copy that is stored on success only.
update_collection_Atomic(db, collection_name, new_embeddings) ==
  IF ~db[collection_name].present
  THEN Outcome(db, "NotFound", <<>>, Absent)
  ELSE LET loop == UpdateLoop(db[collection_name], collection_name, new_embeddings)
       IN Outcome(IF loop.res = "Ok" THEN [db EXCEPT ![collection_name] = loop.collection]
                  ELSE db,
                  loop.res, loop.lines, Absent)

update_collection(db, collection_name, new_embeddings) ==
  IF ~db[collection_name].present
  THEN Outcome(db, "NotFound", <<>>, Absent)
  ELSE LET loop == UpdateLoop(db[collection_name], collection_name, new_embeddings)
       IN Outcome([db EXCEPT ![collection_name] = loop.collection],
                  loop.res, loop.lines, Absent)

get_collection(db, collection_name) ==
  IF db[collection_name].present
  THEN Outcome(db, "Ok", <<LogLine("[INFO]", FoundMsg(collection_name))>>,
               db[collection_name])
  ELSE Outcome(db, "None", <<LogLine("[ERROR]", NotFoundMsg(collection_name))>>, Absent)

get_embeddings(db, collection_name) ==
  IF db[collection_name].present
  THEN Outcome(db, "Ok", <<LogLine("[INFO]", RetrievedMsg(collection_name))>>,
               [Absent EXCEPT !.present = TRUE,
                              !.embeddings = db[collection_name].embeddings])
  ELSE Outcome(db, "None", <<LogLine("[ERROR]", NotFoundMsg(collection_name))>>, Absent)

\* ----------------------------------------------------------------- top k
\* The metric kernels and the order of ScoreIndex are in similarity.rs.
RECURSIVE Dot(_, _)
\* The sum of a[i] * b[i] over the pairs zip gives, in units of Scale.
Dot(a, b) ==
  IF a = <<>> \/ b = <<>> THEN 0
  ELSE (a[1] * b[1]) \div Scale + Dot(Tail(a), Tail(b))

RECURSIVE SquaredDistance(_, _)
SquaredDistance(a, b) ==
  IF a = <<>> \/ b = <<>> THEN 0
  ELSE ((a[1] - b[1]) * (a[1] - b[1])) \div Scale + SquaredDistance(Tail(a), Tail(b))

\* The per-query scalar: the magnitude of the query for cosine, else unused.
get_cache_attr(distance, query) == IF distance = "Cosine" THEN Norm(query) ELSE 0

\* get_distance_fn(distance) applied to a stored vector, the query and the
\* memo: lower is more similar under each of the three.
distance_fn(distance, vector, query, memo) ==
  CASE distance = "Euclidean" -> SquaredDistance(vector, query)
    [] distance = "Cosine" -> Scale - Dot(vector, normalize(query))
    [] distance = "DotProduct" -> -Dot(vector, query)

ScoreIndex(score, index) == [score |-> score, index |-> index]

\* Ord of ScoreIndex: by score, equal scores by index descending.
ScoreIndexLess(a, b) ==
  a.score < b.score \/ (a.score = b.score /\ a.index > b.index)

\* BinaryHeap::peek: the greatest element of a heap that is not empty.
Peek(heap) == CHOOSE x \in heap : \A y \in heap : y = x \/ ScoreIndexLess(y, x)

\* One turn of the selection loop without the comparison with the top: a
\* full heap takes nothing more.
HeapTurn_KeepsFirst(heap, score_index, k) ==
  IF Cardinality(heap.set) < k
  THEN [heap EXCEPT !.set = @ \cup {score_index}]
  ELSE heap

\* One turn of the selection loop without the pop after the push.
HeapTurn_NoPop(heap, score_index, k) ==
  IF Cardinality(heap.set) < k
  THEN [heap EXCEPT !.set = @ \cup {score_index}]
  ELSE IF heap.set = {}
  THEN [heap EXCEPT !.panicked = TRUE]
  ELSE IF ScoreIndexLess(score_index, Peek(heap.set))
  THEN [heap EXCEPT !.set = @ \cup {score_index}]
  ELSE heap

\* One turn of the selection loop on heap [set, panicked]: push while there
\* are fewer than k, else compare with the top (unwrap of peek panics on an
\* empty heap), push and pop the top.
HeapTurn(heap, score_index, k) ==
  IF Cardinality(heap.set) < k
  THEN [heap EXCEPT !.set = @ \cup {score_index}]
  ELSE IF heap.set = {}
  THEN [heap EXCEPT !.panicked = TRUE]
  ELSE IF ScoreIndexLess(score_index, Peek(heap.set))
  THEN LET pushed == heap.set \cup {score_index}
       IN [heap EXCEPT !.set = pushed \ {Peek(pushed)}]
  ELSE heap

RECURSIVE HeapLoop(_, _, _)
\* for score_index in scores, until a panic.
HeapLoop(heap, scores, k) ==
  IF scores = <<>> \/ heap.panicked THEN heap
  ELSE HeapLoop(HeapTurn(heap, scores[1], k), Tail(scores), k)

RECURSIVE IntoVec_Unsorted(_)
\* into_vec for into_sorted_vec: the elements as they came, by index.
IntoVec_Unsorted(set) ==
  IF set = {} THEN <<>>
  ELSE LET first == CHOOSE x \in set : \A y \in set : x.index <= y.index
       IN <<first>> \o IntoVec_Unsorted(set \ {first})

RECURSIVE into_sorted_vec(_)
\* BinaryHeap::into_sorted_vec: ascending in the order of ScoreIndex.
into_sorted_vec(set) ==
  IF set = {} THEN <<>>
  ELSE LET least == CHOOSE x \in set : \A y \in set : y = x \/ ScoreIndexLess(x, y)
       IN <<least>> \o into_sorted_vec(set \ {least})

SimilarityResult(score, embedding) == [score |-> score, embedding |-> embedding]

\* The orders in which the n scoring tasks of the parallel map can finish.
Orders(n) == {f \in [1..n -> 1..n] : \A i, j \in 1..n : i # j => f[i] # f[j]}

InOrder(n) == [i \in 1..n |-> i]

\* collect with the index taken where the item arrives: enumerate() after
\* the parallel map, on an unindexed stream.
Collect_IndexedAsFinished(finished) ==
  [i \in DOMAIN finished |-> ScoreIndex(finished[i].score, i - 1)]

\* collect::<Vec<_>>() of the indexed parallel iterator: every item in the
\* place of the embedding it was computed from, whenever it finished.
Collect(finished) ==
  [i \in DOMAIN finished |->
     finished[CHOOSE j \in DOMAIN finished : finished[j].index = i - 1]]

\* Collection::get_similarity: the scores by index (0-based), computed by
\* tasks that finish in the given order; the selection; the results.
\* panicked when the selection panicked.
get_similarity(collection, query, k, order) ==
  LET memo_attr == get_cache_attr(collection.distance, query)
      finished == [j \in DOMAIN order |->
                     ScoreIndex(distance_fn(collection.distance,
                                            collection.embeddings[order[j]].vector,
                                            query, memo_attr),
                                order[j] - 1)]
      scores == Collect(finished)
      heap == HeapLoop([set |-> {}, panicked |-> FALSE], scores, k)
      sorted == into_sorted_vec(heap.set)
  IN [panicked |-> heap.panicked,
      result |-> IF heap.panicked THEN <<>>
                 ELSE [j \in DOMAIN sorted |->
                         SimilarityResult(sorted[j].score,
                                          collection.embeddings[sorted[j].index + 1])]]

RECURSIVE Enumerate(_)
\* The pairs of a map in some enumeration order.
Enumerate(S) ==
  IF S = {} THEN <<>>
  ELSE LET x == CHOOSE y \in S : TRUE IN <<x>> \o Enumerate(S \ {x})

\* {:?} of an Embedding.
EmbeddingDebug(e) ==
  <<Tok("Embedding { id: {")>> \o MapDebug(e.id) \o <<Tok("}, vector: [")>>
    \o VecDebug(e.vector) \o <<Tok("], metadata: ")>>
    \o (IF e.metadata.some
        THEN <<Tok("Some({")>> \o MapDebug(Enumerate(e.metadata.map)) \o <<Tok("})")>>
        ELSE <<Tok("None")>>)
    \o <<Tok(" }")>>

\* {:?} of a Vec<SimilarityResult>, in the line get_similarity logs.
SimilarityMsg(result) ==
  <<Tok("Similarity computed successfully'"), Tok("[")>>
    \o Join([j \in DOMAIN result |->
               <<Tok("SimilarityResult { score: "), Num(result[j].score),
                 Tok(", embedding: ")>>
                 \o EmbeddingDebug(result[j].embedding) \o <<Tok(" }")>>],
            Tok(", "))
    \o <<Tok("]"), Tok("' ")>>

\* What get_similarity_handler does with the store: the collection looked
\* up, the selection on it; the text "Collection not found" when missing.
get_similarity_handler(db, collection_name, query_vector, k, order) ==
  LET found == get_collection(db, collection_name)
  IN IF found.res = "None"
     THEN Outcome(db, "Collection not found", found.lines, <<>>)
     ELSE LET similarity_results == get_similarity(found.ret, query_vector, k, order)
          IN IF similarity_results.panicked
             THEN Outcome(db, "panic", found.lines, <<>>)
             ELSE Outcome(db, "Ok",
                          found.lines
                            \o <<LogLine("[INFO]", SimilarityMsg(similarity_results.result))>>,
                          similarity_results.result)

\* The lines of the log of test_restore_db_from_logs, and a batch line as
\* the pattern of parse_and_update_collection reads one.
TestCreateLine(name, dimension, distance) ==
  LogLine("[INFO]",
          <<Tok("Created new collection"), Tok(" with name: '"), Tok(name), Tok("'"),
            Tok(", dimension: '"), Decimal(dimension), Tok("'"),
            Tok(", distance: '"), Tok(distance), Tok("'")>>)
TestInsertLine(embedding, name) ==
  LogLine("[INFO]",
          <<Tok("Embedding: '")>> \o EmbeddingDebug(embedding)
            \o <<Tok("', "), Tok("successfully inserted into collection"),
                 Tok(" '"), Tok(name), Tok("'")>>)
TestUpdateLine(embeddings, name) ==
  LogLine("[INFO]",
          <<Tok("Embedding: '"), Tok("[")>>
            \o Join([i \in DOMAIN embeddings |-> EmbeddingDebug(embeddings[i])], Tok(", "))
            \o <<Tok("]"), Tok("' "), Tok("successfully updated to collection"),
                 Tok(" '"), Tok(name), Tok("'")>>)
TestDeleteLine(name) ==
  LogLine("[INFO]", <<Tok("Deleted collection"), Tok(": '"), Tok(name), Tok("'")>>)

\* ----------------------------------------------------------------- replay
Min(S) == CHOOSE x \in S : \A y \in S : x <= y

RECURSIVE Concat(_)
\* reader.lines() pushed onto one String: the lines with nothing between them.
Concat(lines) == IF lines = <<>> THEN <<>> ELSE lines[1] \o Concat(Tail(lines))

RECURSIVE Ascending(_)
Ascending(S) == IF S = {} THEN <<>> ELSE <<Min(S)>> \o Ascending(S \ {Min(S)})

\* split_by_date without the push after the loop: the last entry is lost.
split_by_date_DropsLast(log) ==
  LET marks == {i \in DOMAIN log : log[i] = Tok("TS")}
      starts == Ascending(IF log # <<>> THEN marks \cup {1} ELSE marks)
  IN [k \in 1..(Len(starts) - 1) |-> SubSeq(log, starts[k], starts[k + 1] - 1)]

\* One entry from each timestamp to the next; text before the first
\* timestamp is an entry of its own.
split_by_date(log) ==
  LET marks == {i \in DOMAIN log : log[i] = Tok("TS")}
      starts == Ascending(IF log # <<>> THEN marks \cup {1} ELSE marks)
  IN [k \in DOMAIN starts |->
        SubSeq(log, starts[k],
               IF k < Len(starts) THEN starts[k + 1] - 1 ELSE Len(log))]

\* entry.contains(phrase), for a phrase that is one token of the text.
Contains(entry, phrase) == \E i \in DOMAIN entry : entry[i] = Tok(phrase)

\* Text without a quote in it: the words of the model's logs, and numbers.
Words ==
  Names \cup Distances
    \cup {"Manhattan", "unique_id", "doc", "x", "page"}
    \cup {DecimalWords[n] : n \in DOMAIN DecimalWords}
QuoteFree(tok) == tok.lit \in Words \/ tok.lit = "#"

\* \d+ : a word of digits.
Digits(tok) == \E n \in DOMAIN DecimalWords : tok.lit = DecimalWords[n]

\* [0-9.,\s]+ is made of printed non-negative numbers and ", ".
InVectorClass(tok) == (tok.lit = "#" /\ tok.num >= 0) \/ tok = Tok(", ")

\* One element of a pattern against one token: a character class, or the
\* literal text itself.
Fits(c, tok) ==
  CASE c = "[^']+" -> QuoteFree(tok)
    [] c = "\\d+" -> Digits(tok)
    [] OTHER -> tok = Tok(c)

MatchesAt(toks, p, pat) ==
  /\ p >= 1
  /\ p + Len(pat) - 1 <= Len(toks)
  /\ \A i \in DOMAIN pat : Fits(pat[i], toks[p + i - 1])

\* Regex::captures searches the text: the leftmost match, 0 when none.
FirstMatch(toks, pat) ==
  LET ps == {p \in DOMAIN toks : MatchesAt(toks, p, pat)}
  IN IF ps = {} THEN 0 ELSE Min(ps)

CreatePattern ==
  <<"Created new collection", " with name: '", "[^']+", "'", ", dimension: '", "\\d+",
    "'", ", distance: '", "[^']+", "'">>

DeletePattern == <<"Deleted collection", ": '", "[^']+", "'">>

EmbeddingHead ==
  <<"Embedding { id: {", "\"", "unique_id", "\": \"", "\\d+", "\"", "}, vector: [">>

InsertTail == <<"', ", "successfully inserted into collection", " '", "[^']+", "'">>

UpdateTail == <<"]", "' ", "successfully updated to collection", " '", "[^']+", "'">>

\* str::parse::<usize> of a word of digits.
ParseDecimal(word) == (CHOOSE n \in DOMAIN DecimalWords : DecimalWords[n] = word) - 1

\* split(',') of captured text.
RECURSIVE SplitComma(_)
SplitComma(toks) ==
  LET cs == {i \in DOMAIN toks : toks[i] = Tok(", ")}
  IN IF cs = {} THEN <<toks>>
     ELSE <<SubSeq(toks, 1, Min(cs) - 1)>> \o SplitComma(SubSeq(toks, Min(cs) + 1, Len(toks)))

\* .split(',').filter_map(|s| s.trim().parse().ok()): the pieces that are numbers.
RECURSIVE ParseVector(_)
ParseVector(pieces) ==
  IF pieces = <<>> THEN <<>>
  ELSE (IF Len(pieces[1]) = 1 /\ pieces[1][1].lit = "#" THEN <<pieces[1][1].num>> ELSE <<>>)
         \o ParseVector(Tail(pieces))

\* One piece of the metadata text: splitn(2, ':'), trimmed of blanks and quotes.
ParsePair(piece) ==
  IF Len(piece) = 5 /\ piece[1] = Tok("\"") /\ piece[3] = Tok("\": \"") /\ piece[5] = Tok("\"")
  THEN <<piece[2].lit, piece[4].lit>>
  ELSE IF Len(piece) >= 1 THEN <<piece[1].lit, "">> ELSE <<"", "">>

\* The HashMap collected from the pieces (an empty text has one empty piece).
ParseMetadata(toks) ==
  LET pieces == SplitComma(toks)
  IN SomeMetadata({ParsePair(pieces[i]) : i \in DOMAIN pieces})

\* The embedding pattern at position p: the head, a vector text, "],
\* metadata: Some({", the shortest metadata text, "}) }".  end is the
\* position after the match; ok is FALSE when the pattern does not match at p.
NoParse == [ok |-> FALSE, embedding |-> Embedding(<<>>, <<>>, NoMetadata), end |-> 0]
ParseEmbeddingAt(toks, p) ==
  IF ~MatchesAt(toks, p, EmbeddingHead) THEN NoParse
  ELSE LET v0 == p + Len(EmbeddingHead)
           stops == {q \in v0..Len(toks) : ~InVectorClass(toks[q])}
           q == IF stops = {} THEN 0 ELSE Min(stops)
       IN IF q <= v0 \/ ~MatchesAt(toks, q, <<"], metadata: ", "Some({">>) THEN NoParse
          ELSE LET closes == {r \in (q + 2)..Len(toks) : MatchesAt(toks, r, <<"})", " }">>)}
               IN IF closes = {} THEN NoParse
                  ELSE LET r == Min(closes)
                       IN [ok |-> TRUE,
                           embedding |->
                             Embedding(<< <<"unique_id", toks[p + 4].lit>> >>,
                                       ParseVector(SplitComma(SubSeq(toks, v0, q - 1))),
                                       ParseMetadata(SubSeq(toks, q + 2, r - 1))),
                           end |-> r + 2]

\* What one parse_and_* call did: the store after it, whether the pattern
\* matched, and the result of the store operation it drove ("" when none).
Replayed(db, matched, res, lines) ==
  [db |-> db, matched |-> matched, res |-> res, lines |-> lines]

parse_and_create_collection(log_line, db) ==
  LET p == FirstMatch(log_line, CreatePattern)
  IN IF p = 0 THEN Replayed(db, FALSE, "", <<>>)
     ELSE LET collection_name == log_line[p + 2].lit
              collection_dimension == ParseDecimal(log_line[p + 5].lit)
              collection_distance == log_line[p + 8].lit
          IN IF collection_distance \notin {"DotProduct", "Cosine", "Euclidean"}
             THEN Replayed(db, TRUE, "Unknown distance type", <<>>)
             ELSE LET out == create_collection(db, collection_name, collection_dimension,
                                               collection_distance)
                  IN Replayed(out.db, TRUE, out.res, out.lines)

parse_and_insert_embeddings(log_line, db) ==
  LET ps == {p \in DOMAIN log_line :
               /\ log_line[p] = Tok("Embedding: '")
               /\ ParseEmbeddingAt(log_line, p + 1).ok
               /\ MatchesAt(log_line, ParseEmbeddingAt(log_line, p + 1).end, InsertTail)}
  IN IF ps = {} THEN Replayed(db, FALSE, "", <<>>)
     ELSE LET parsed == ParseEmbeddingAt(log_line, Min(ps) + 1)
              collection_name == log_line[parsed.end + 3].lit
              out == insert_into_collection(db, collection_name, parsed.embedding)
          IN Replayed(out.db, TRUE, out.res, out.lines)

RECURSIVE CapturesIter(_, _)
\* embedding_re.captures_iter: the embeddings the pattern finds from p on,
\* left to right, passing over text it does not match.
CapturesIter(toks, p) ==
  IF p > Len(toks) THEN <<>>
  ELSE LET parsed == ParseEmbeddingAt(toks, p)
       IN IF parsed.ok THEN <<parsed.embedding>> \o CapturesIter(toks, parsed.end)
          ELSE CapturesIter(toks, p + 1)

parse_and_update_collection(log_line, db) ==
  LET ps == {p \in DOMAIN log_line :
               /\ MatchesAt(log_line, p, <<"Embedding: '", "[">>)
               /\ \E e \in (p + 2)..Len(log_line) : MatchesAt(log_line, e, UpdateTail)}
  IN IF ps = {} THEN Replayed(db, FALSE, "", <<>>)
     ELSE LET p == Min(ps)
              e == Min({x \in (p + 2)..Len(log_line) : MatchesAt(log_line, x, UpdateTail)})
              new_embeddings == CapturesIter(SubSeq(log_line, p + 2, e - 1), 1)
              collection_name == log_line[e + 4].lit
              out == update_collection(db, collection_name, new_embeddings)
          IN Replayed(out.db, TRUE, out.res, out.lines)

parse_and_delete_collection(log_line, db) ==
  LET p == FirstMatch(log_line, DeletePattern)
  IN IF p = 0 THEN Replayed(db, FALSE, "", <<>>)
     ELSE LET out == delete_collection(db, log_line[p + 2].lit)
          IN Replayed(out.db, TRUE, out.res, out.lines)

\* One turn of the loop of restore_db_from_logs; the result of the parse_and_*
\* call is dropped.  kind is the branch taken, "" when the entry has none of
\* the four phrases.
ReplayEntry(entry, db) ==
  IF Contains(entry, "Created new collection")
  THEN [kind |-> "create", did |-> parse_and_create_collection(entry, db)]
  ELSE IF Contains(entry, "successfully inserted into collection")
  THEN [kind |-> "insert", did |-> parse_and_insert_embeddings(entry, db)]
  ELSE IF Contains(entry, "successfully updated to collection")
  THEN [kind |-> "update", did |-> parse_and_update_collection(entry, db)]
  ELSE IF Contains(entry, "Deleted collection")
  THEN [kind |-> "delete", did |-> parse_and_delete_collection(entry, db)]
  ELSE [kind |-> "", did |-> Replayed(db, FALSE, "", <<>>)]

RECURSIVE ReplayAll(_, _)
\* The for loop of restore_db_from_logs over the entries, from store db.
ReplayAll(entries, db) ==
  IF entries = <<>> THEN db
  ELSE ReplayAll(Tail(entries), ReplayEntry(entries[1], db).did.db)

\* The store restore_db_from_logs builds from a readable file of these lines.
restore_db_from_logs(lines) == ReplayAll(split_by_date(Concat(lines)), NewDB)

\* ------------------------------------------------------------------ state
VARIABLES
  collections,   \* CacheDB.collections: name -> Collection, or Absent
  call,          \* the store call in progress: arguments, then the result
  before,        \* collections as they were when the call (or the replay of
                 \* one log entry) started
  prior,         \* the call before this one, when it was a successful
                 \* create_collection or delete_collection: [op, name, from],
                 \* from the store before a create_collection
  logFile,       \* output.log: [tracked, status, lines]; an untracked file
                 \* is not followed (no store operation reads it)
  restore,       \* restore_db_from_logs: position, entries, result
  script,        \* the operations the lines of a given log were written for
  server,        \* main and the store's mutex: phase, RESTORE_DB, lock holder,
                 \* poisoned, requests received, the store the requests give
                 \* when run one at a time in the order of their locks
                 \* (serial), and the store when the lock was poisoned (frozen)
  tasks          \* the request each connection task is handling, and its reply

vars == <<collections, call, before, prior, logFile, restore, script, server, tasks>>

Request(op, name, dimension, distance, embeddings) ==
  [state |-> "called", op |-> op, name |-> name, dimension |-> dimension,
   distance |-> distance, embeddings |-> embeddings, query_vector |-> <<>>, k |-> 0,
   res |-> "", ret |-> Absent, lines |-> <<>>]

\* The body of a similarity request.
Query(name, query_vector, k) ==
  [Request("get_similarity", name, 0, "", <<>>) EXCEPT !.query_vector = query_vector, !.k = k]

NoCall == [Request("", "", 0, "", <<>>) EXCEPT !.state = "idle"]

NoPrior == [op |-> "", name |-> "", from |-> NewDB]

\* No replay: the store is driven through its public surface alone.
NoRestore == [pc |-> "off", entries |-> <<>>, next |-> 0, result |-> "", trace |-> <<>>]

\* No server: the store is used as a library.
NoServer ==
  [phase |-> "off", env |-> FALSE, holder |-> 0, poisoned |-> FALSE, count |-> 0,
   serial |-> NewDB, frozen |-> NewDB]

Tasks == 1..MaxTasks

\* A connection task with no request.  Of a request it keeps: from, the
\* store when it took the lock; next, the batch item it is at; late, that
\* it came after the lock was poisoned; overlapped, the operation that was
\* in the store while it waited; the reply (status, body); seen, what the
\* store operation gave it; allowed, what a reader may be given.
IdleTask ==
  [pc |-> "idle", req |-> NoCall, from |-> NewDB, next |-> 0, late |-> FALSE,
   overlapped |-> "", status |-> 0, body |-> "", seen |-> [res |-> "", ret |-> Absent],
   allowed |-> {}]

NoTasks == [t \in Tasks |-> IdleTask]

\* The calls a client of the store can make.
Requests ==
  {Request("create_collection", n, d, m, <<>>) : n \in Names, d \in Dims, m \in Distances}
    \cup {Request("delete_collection", n, 0, "", <<>>) : n \in Names}
    \cup {Request("insert_into_collection", n, 0, "", <<e>>) : n \in Names, e \in Embeddings}
    \cup {Request("update_collection", n, 0, "", b) : n \in Names, b \in Batches}
    \cup {Request("get_collection", n, 0, "", <<>>) : n \in Names}
    \cup {Request("get_embeddings", n, 0, "", <<>>) : n \in Names}
    \cup {Query(n, <<2 * Scale>>, k) : n \in Names, k \in {0, 1}}

\* The outcome of request r on db.
Apply(db, r) ==
  CASE r.op = "create_collection" -> create_collection(db, r.name, r.dimension, r.distance)
    [] r.op = "delete_collection" -> delete_collection(db, r.name)
    [] r.op = "insert_into_collection" -> insert_into_collection(db, r.name, r.embeddings[1])
    [] r.op = "update_collection" -> update_collection(db, r.name, r.embeddings)
    [] r.op = "get_collection" -> get_collection(db, r.name)
    [] r.op = "get_embeddings" -> get_embeddings(db, r.name)
    [] r.op = "get_similarity" ->
         get_similarity_handler(db, r.name, r.query_vector, r.k,
                                InOrder(Len(db[r.name].embeddings)))

\* The file after the logger appended the lines of one call.
Written(file, lines) ==
  IF file.tracked THEN [file EXCEPT !.lines = @ \o lines] ELSE file

RECURSIVE TotalEmbeddings(_, _)
TotalEmbeddings(db, names) ==
  IF names = {} THEN 0
  ELSE LET n == CHOOSE x \in names : TRUE
       IN Len(db[n].embeddings) + TotalEmbeddings(db, names \ {n})

\* A client calls a store operation.  The store is kept to max embeddings
\* and a followed log to MaxLogLen lines.
InvokeUpTo(r, max) ==
  /\ call.state = "idle"
  /\ restore.pc \in {"off", "done"}
  /\ TotalEmbeddings(Apply(collections, r).db, Names) <= max
  /\ Len(logFile.lines) < MaxLogLen
  /\ call' = r
  /\ UNCHANGED <<collections, before, prior, logFile, restore, script, server, tasks>>

Invoke(r) == InvokeUpTo(r, MaxEmb)

\* The called operation runs, with outcome out.
Run(op, out) ==
  /\ call.state = "called"
  /\ call.op = op
  /\ collections' = out.db
  /\ call' = [call EXCEPT !.state = "returned", !.res = out.res, !.ret = out.ret,
                          !.lines = out.lines]
  /\ before' = collections
  /\ logFile' = Written(logFile, out.lines)
  /\ UNCHANGED <<prior, restore, script, server, tasks>>

CreateCollection ==
  Run("create_collection",
      create_collection(collections, call.name, call.dimension, call.distance))

DeleteCollection == Run("delete_collection", delete_collection(collections, call.name))

InsertIntoCollection ==
  Run("insert_into_collection",
      insert_into_collection(collections, call.name, call.embeddings[1]))

UpdateCollection ==
  Run("update_collection", update_collection(collections, call.name, call.embeddings))

GetCollection == Run("get_collection", get_collection(collections, call.name))

GetEmbeddings == Run("get_embeddings", get_embeddings(collections, call.name))

GetSimilarity ==
  /\ call.op = "get_similarity"
  /\ \E order \in Orders(Len(collections[call.name].embeddings)) :
       Run("get_similarity",
           get_similarity_handler(collections, call.name, call.query_vector, call.k, order))

\* The caller takes the result.
Return ==
  /\ call.state = "returned"
  /\ call' = NoCall
  /\ prior' = IF call.op \in {"create_collection", "delete_collection"} /\ call.res = "Ok"
              THEN [op |-> call.op, name |-> call.name,
                    from |-> IF call.op = "create_collection" THEN before ELSE NewDB]
              ELSE NoPrior
  /\ before' = collections
  /\ UNCHANGED <<collections, logFile, restore, script, server, tasks>>

Operation ==
  \/ CreateCollection
  \/ DeleteCollection
  \/ InsertIntoCollection
  \/ UpdateCollection
  \/ GetCollection
  \/ GetEmbeddings

\* CacheDB::new(), driven through the public surface of the store.
Init ==
  /\ collections = NewDB
  /\ call = NoCall
  /\ before = NewDB
  /\ prior = NoPrior
  /\ logFile = [tracked |-> FALSE, status |-> "ok", lines |-> <<>>]
  /\ restore = NoRestore
  /\ script = <<>>
  /\ server = NoServer
  /\ tasks = NoTasks

Next ==
  \/ \E r \in Requests : Invoke(r)
  \/ Operation
  \/ GetSimilarity
  \/ Return

Spec == Init /\ [][Next]_vars

\* ------------------------------------------------- the store and its log
\* The same calls with output.log followed from an empty file, for requests
\* whose embeddings have the numeric unique_id form.
LoggedIds == {<< <<"unique_id", w>> >> : w \in {"0", "1"}}
LoggedEmbeddings ==
  {Embedding(i, <<2 * Scale>>, SomeMetadata({<<"page", "1">>})) : i \in LoggedIds}
LoggedRequests ==
  {Request("create_collection", n, 1, "Euclidean", <<>>) : n \in Names}
    \cup {Request("delete_collection", n, 0, "", <<>>) : n \in Names}
    \cup {Request("insert_into_collection", "A", 0, "", <<e>>) : e \in LoggedEmbeddings}
    \cup {Request("update_collection", "A", 0, "", <<e>>) : e \in LoggedEmbeddings}
    \cup {Request("get_collection", "A", 0, "", <<>>),
          Request("get_embeddings", "A", 0, "", <<>>)}

LoggedInit ==
  /\ collections = NewDB
  /\ call = NoCall
  /\ before = NewDB
  /\ prior = NoPrior
  /\ logFile = [tracked |-> TRUE, status |-> "ok", lines |-> <<>>]
  /\ restore = NoRestore
  /\ script = <<>>
  /\ server = NoServer
  /\ tasks = NoTasks

LoggedNext ==
  \/ \E r \in LoggedRequests : Invoke(r)
  \/ Operation
  \/ Return

SpecLog == LoggedInit /\ [][LoggedNext]_vars

\* ------------------------------------------------------ batches in depth
\* Inserts and batches of up to MaxBatchLen items into one collection that
\* may grow to MaxBatchStore embeddings.
BatchEmbeddings ==
  Embeddings
    \cup {Embedding(<< <<"unique_id", "1">> >>, v, m) : v \in Vectors, m \in Metadatas}
BatchRequests ==
  {Request("create_collection", "A", d, m, <<>>) : d \in Dims, m \in Distances}
    \cup {Request("insert_into_collection", "A", 0, "", <<e>>) : e \in BatchEmbeddings}
    \cup {Request("update_collection", "A", 0, "", b) :
            b \in SeqsUpTo(BatchEmbeddings, MaxBatchLen)}

BatchNext ==
  \/ \E r \in BatchRequests : InvokeUpTo(r, MaxBatchStore)
  \/ CreateCollection
  \/ InsertIntoCollection
  \/ UpdateCollection
  \/ Return

SpecBatch == Init /\ [][BatchNext]_vars

\* ------------------------------------------------------------- queries
\* Collections of dimension 1 under each distance, of up to MaxQueryStore
\* embeddings, queried for the top k, k up to MaxK, with queries of length 0 and 1.
QueryEmbeddings ==
  {Embedding(<< <<"unique_id", w>> >>, <<c>>, NoMetadata) :
     w \in {"0", "1", "2"}, c \in {-Scale, Scale, 2 * Scale}}

QueryRequests ==
  {Request("create_collection", "A", 1, m, <<>>) : m \in Distances}
    \cup {Request("insert_into_collection", "A", 0, "", <<e>>) : e \in QueryEmbeddings}
    \cup {Query(n, q, k) : n \in Names, q \in {<<>>, <<Scale>>, <<2 * Scale>>}, k \in 0..MaxK}

QueryNext ==
  \/ \E r \in QueryRequests : InvokeUpTo(r, MaxQueryStore)
  \/ CreateCollection
  \/ InsertIntoCollection
  \/ GetSimilarity
  \/ Return

SpecQuery == Init /\ [][QueryNext]_vars

\* --------------------------------------------------- replay at startup
\* main with RESTORE_DB set: restore_db_from_logs on the new store, before
\* any request is served.  The file holds the lines of a script: entries in
\* the form of the log of test_restore_db_from_logs, and a create entry in
\* the form the store itself writes.
ScriptEmbeddings ==
  LoggedEmbeddings
    \cup {Embedding(<< <<"unique_id", "0">> >>, <<2 * Scale>>, NoMetadata)}
ScriptOps ==
  {Request("create_collection", n, 1, "Euclidean", <<>>) : n \in Names}
    \cup {Request("create_collection", "B", 1, "Manhattan", <<>>)}
    \cup {Request("insert_into_collection", "A", 0, "", <<e>>) : e \in ScriptEmbeddings}
    \cup {Request("update_collection", "A", 0, "",
                  <<Embedding(<< <<"unique_id", "0">> >>, <<2 * Scale>>, NoMetadata),
                    Embedding(<< <<"unique_id", "1">> >>, <<2 * Scale>>,
                              SomeMetadata({<<"page", "1">>}))>>)}
    \cup {Request("delete_collection", "B", 0, "", <<>>)}
    \cup {Request("as_written", "A", 0, "", <<>>)}

ScriptLine(r) ==
  CASE r.op = "create_collection" -> TestCreateLine(r.name, r.dimension, r.distance)
    [] r.op = "insert_into_collection" -> TestInsertLine(r.embeddings[1], r.name)
    [] r.op = "update_collection" -> TestUpdateLine(r.embeddings, r.name)
    [] r.op = "delete_collection" -> TestDeleteLine(r.name)
    [] r.op = "as_written" -> LogLine("[INFO]", CreatedMsg(r.name))

Scripts == SeqsUpTo(ScriptOps, MaxLogLen)

RestoreInit ==
  /\ collections = NewDB
  /\ call = NoCall
  /\ before = NewDB
  /\ prior = NoPrior
  /\ script \in Scripts
  /\ \E status \in {"ok", "missing", "unreadable"} :
       /\ status = "missing" => script = <<>>
       /\ logFile = [tracked |-> TRUE, status |-> status,
                     lines |-> [i \in DOMAIN script |-> ScriptLine(script[i])]]
  /\ restore = [NoRestore EXCEPT !.pc = "start"]
  /\ server = NoServer
  /\ tasks = NoTasks

\* File::open, the read of the lines, split_by_date.
RestoreOpen ==
  /\ restore.pc = "start"
  /\ restore' = IF logFile.status = "ok"
                THEN [restore EXCEPT !.pc = "loop", !.next = 1,
                                     !.entries = split_by_date(Concat(logFile.lines))]
                ELSE [restore EXCEPT !.pc = "done", !.result = "Err"]
  /\ UNCHANGED <<collections, call, before, prior, logFile, script, server, tasks>>

\* The turn of the loop with `?` on the parse_and_* call: the first entry
\* that fails or does not parse ends the replay with its error.
RestoreEntry_Aborts ==
  /\ restore.pc = "loop"
  /\ restore.next <= Len(restore.entries)
  /\ LET turn == ReplayEntry(restore.entries[restore.next], collections)
         failed == ~turn.did.matched \/ turn.did.res # "Ok"
     IN /\ collections' = turn.did.db
        /\ logFile' = Written(logFile, turn.did.lines)
        /\ restore' = [restore EXCEPT
                         !.pc = IF failed THEN "done" ELSE @,
                         !.result = IF failed THEN "Err" ELSE @,
                         !.next = @ + 1,
                         !.trace = Append(@, [kind |-> turn.kind,
                                              matched |-> turn.did.matched,
                                              res |-> turn.did.res])]
  /\ before' = collections
  /\ UNCHANGED <<call, prior, script, server, tasks>>

\* One turn of the for loop over the entries.
RestoreEntry ==
  /\ restore.pc = "loop"
  /\ restore.next <= Len(restore.entries)
  /\ LET turn == ReplayEntry(restore.entries[restore.next], collections)
     IN /\ collections' = turn.did.db
        /\ logFile' = Written(logFile, turn.did.lines)
        /\ restore' = [restore EXCEPT
                         !.next = @ + 1,
                         !.trace = Append(@, [kind |-> turn.kind,
                                              matched |-> turn.did.matched,
                                              res |-> turn.did.res])]
  /\ before' = collections
  /\ UNCHANGED <<call, prior, script, server, tasks>>

\* Ok(()) after the last entry.
RestoreReturn ==
  /\ restore.pc = "loop"
  /\ restore.next > Len(restore.entries)
  /\ restore' = [restore EXCEPT !.pc = "done", !.result = "Ok"]
  /\ UNCHANGED <<collections, call, before, prior, logFile, script, server, tasks>>

RestoreNext ==
  \/ RestoreOpen
  \/ RestoreEntry
  \/ RestoreReturn

SpecReplay == RestoreInit /\ [][RestoreNext]_vars

\* ----------------------------------------------------------------- server
\* warp serves each request on a task; every store handler locks the one
\* Mutex<CacheDB> of main for its whole store operation.
Readers == {"get_collection", "get_embeddings", "get_similarity"}

\* The reply a handler makes of the outcome of its store operation.
Reply_Uniform404(op, out) ==
  IF out.res \in {"Ok"} THEN [status |-> 200, body |-> "success"]
  ELSE [status |-> 404, body |-> "not found"]

Reply(op, out) ==
  CASE op = "create_collection" ->
         [status |-> 200,
          body |-> IF out.res = "Ok" THEN "Collection created" ELSE "Error"]
    [] op = "insert_into_collection" ->
         [status |-> 200,
          body |-> IF out.res = "Ok" THEN "Embedding inserted into collection"
                   ELSE "Failed to insert embedding into collection"]
    [] op = "get_collection" ->
         IF out.res = "Ok" THEN [status |-> 200, body |-> "collection"]
         ELSE [status |-> 404, body |-> "Collection not found"]
    [] op = "delete_collection" ->
         IF out.res = "Ok" THEN [status |-> 200, body |-> "Collection deleted successfully"]
         ELSE [status |-> 404, body |-> "Failed to delete collection"]
    [] op = "update_collection" ->
         IF out.res = "Ok" THEN [status |-> 200, body |-> "Collection updated successfully"]
         ELSE [status |-> 404, body |-> "Failed to update collection"]
    [] op = "get_similarity" ->
         IF out.res = "Ok" THEN [status |-> 200, body |-> "similarity_results"]
         ELSE [status |-> 200, body |-> "Collection not found"]
    [] op = "get_embeddings" ->
         IF out.res = "Ok" THEN [status |-> 200, body |-> "embeddings"]
         ELSE [status |-> 404, body |-> "Collection not found"]

\* What the store operation of request r gives on db.
View(db, r) == [res |-> Apply(db, r).res, ret |-> Apply(db, r).ret]

\* What reader t may be given: the result on the store as it is, or, with a
\* batch insert inside the store, on the store before or after that batch.
Allowed(t) ==
  LET inside == {u \in Tasks \ {t} :
                   tasks[u].pc = "locked" /\ tasks[u].req.op = "update_collection"}
      stores == IF inside = {} THEN {collections}
                ELSE UNION {{tasks[u].from, Apply(tasks[u].from, tasks[u].req).db} :
                            u \in inside}
  IN {View(db, tasks[t].req) : db \in stores}

\* The tasks after task t ran (part of) operation op in the store: the
\* tasks waiting for the lock waited for it.
Bystanders(t, op) ==
  [u \in Tasks |-> IF u # t /\ tasks[u].pc = "waiting"
                   THEN [tasks[u] EXCEPT !.overlapped = op]
                   ELSE tasks[u]]

\* warp hands request r to a task.
Receive(t, r) ==
  /\ server.phase = "serving"
  /\ tasks[t].pc \in {"idle", "done"}
  /\ server.count < MaxRequests
  /\ tasks' = [tasks EXCEPT ![t] = [IdleTask EXCEPT !.pc = "waiting", !.req = r,
                                                    !.late = server.poisoned]]
  /\ server' = [server EXCEPT !.count = @ + 1]
  /\ UNCHANGED <<collections, call, before, prior, logFile, restore, script>>

\* The store reached without waiting for the lock.
Lock_NoWait(t) ==
  /\ tasks[t].pc = "waiting"
  /\ ~server.poisoned
  /\ tasks' = [tasks EXCEPT ![t].pc = "locked", ![t].from = collections, ![t].next = 1]
  /\ server' = [server EXCEPT !.holder = t, !.serial = Apply(@, tasks[t].req).db]
  /\ UNCHANGED <<collections, call, before, prior, logFile, restore, script>>

\* Readers going past the lock (only the writers exclude each other).
Lock_ReadersPass(t) ==
  /\ tasks[t].pc = "waiting"
  /\ server.holder = 0 \/ tasks[t].req.op \in Readers
  /\ ~server.poisoned
  /\ tasks' = [tasks EXCEPT ![t].pc = "locked", ![t].from = collections, ![t].next = 1]
  /\ server' = [server EXCEPT !.holder = IF tasks[t].req.op \in Readers THEN @ ELSE t,
                              !.serial = Apply(@, tasks[t].req).db]
  /\ UNCHANGED <<collections, call, before, prior, logFile, restore, script>>

\* db.lock().unwrap_or_else(|e| e.into_inner()): a poisoned lock is taken
\* like any other.
Lock_IgnoresPoison(t) ==
  /\ tasks[t].pc = "waiting"
  /\ server.holder = 0
  /\ tasks' = [tasks EXCEPT ![t].pc = "locked", ![t].from = collections, ![t].next = 1]
  /\ server' = [server EXCEPT !.holder = t, !.serial = Apply(@, tasks[t].req).db]
  /\ UNCHANGED <<collections, call, before, prior, logFile, restore, script>>

\* db.lock() returning Ok: the mutex is free and not poisoned.
Lock(t) ==
  /\ tasks[t].pc = "waiting"
  /\ server.holder = 0
  /\ ~server.poisoned
  /\ tasks' = [tasks EXCEPT ![t].pc = "locked", ![t].from = collections, ![t].next = 1]
  /\ server' = [server EXCEPT !.holder = t, !.serial = Apply(@, tasks[t].req).db]
  /\ UNCHANGED <<collections, call, before, prior, logFile, restore, script>>

\* db.lock() returning Err(PoisonError), mapped to warp::reject::reject().
Reject(t) ==
  /\ tasks[t].pc = "waiting"
  /\ server.holder = 0
  /\ server.poisoned
  /\ tasks' = [tasks EXCEPT ![t].pc = "done", ![t].status = 404, ![t].body = "rejection"]
  /\ UNCHANGED <<collections, call, before, prior, logFile, restore, script, server>>

\* The task ends its request: the guard is dropped, the reply is made.  A
\* panic under the guard poisons the mutex and ends the task with no reply.
Finish(t, out) ==
  LET op == tasks[t].req.op
      panicked == out.res = "panic"
      reply == IF panicked THEN [status |-> 0, body |-> "panic"] ELSE Reply(op, out)
  IN /\ collections' = out.db
     /\ logFile' = Written(logFile, out.lines)
     /\ server' = [server EXCEPT !.holder = 0,
                                 !.poisoned = @ \/ panicked,
                                 !.frozen = IF panicked /\ ~server.poisoned
                                            THEN collections ELSE @]
     /\ tasks' = [Bystanders(t, op) EXCEPT
                    ![t] = [@ EXCEPT !.pc = "done", !.from = NewDB,
                                     !.status = reply.status, !.body = reply.body,
                                     !.seen = [res |-> out.res, ret |-> out.ret],
                                     !.allowed = IF op \in Readers THEN Allowed(t) ELSE {}]]
     /\ UNCHANGED <<call, before, prior, restore, script>>

\* A handler other than the batch insert, from the lock to the reply.
Handle(t) ==
  /\ tasks[t].pc = "locked"
  /\ tasks[t].req.op # "update_collection"
  /\ LET r == tasks[t].req
     IN IF r.op = "get_similarity"
        THEN \E order \in Orders(Len(collections[r.name].embeddings)) :
               Finish(t, get_similarity_handler(collections, r.name, r.query_vector,
                                                r.k, order))
        ELSE Finish(t, Apply(collections, r))

\* batch_insert_embeddings_handler under the lock: the lookup, one turn of
\* the loop of update_collection per step, then the reply.
BatchStep(t) ==
  /\ tasks[t].pc = "locked"
  /\ tasks[t].req.op = "update_collection"
  /\ LET r == tasks[t].req
         i == tasks[t].next
         step == PushChecked(collections[r.name], r.name, r.embeddings[i], "UniqueViolation")
     IN IF ~collections[r.name].present
        THEN Finish(t, update_collection(collections, r.name, r.embeddings))
        ELSE IF i > Len(r.embeddings)
        THEN Finish(t, update_collection(collections, r.name, <<>>))
        ELSE IF step.res # ""
        THEN Finish(t, Outcome(collections, step.res, step.lines, Absent))
        ELSE /\ collections' = [collections EXCEPT ![r.name] = step.collection]
             /\ tasks' = [Bystanders(t, r.op) EXCEPT ![t].next = i + 1]
             /\ UNCHANGED <<call, before, prior, logFile, restore, script, server>>

\* The requests sent to the server: collection A made, filled, read, queried
\* and deleted; collection B never made.
ServerEmbeddings ==
  {Embedding(<< <<"unique_id", u>> >>, <<2 * Scale>>, NoMetadata) : u \in {"0", "1"}}

ServerRequests ==
  {Request("create_collection", "A", 1, "Euclidean", <<>>)}
    \cup {Request("insert_into_collection", "A", 0, "", <<e>>) : e \in ServerEmbeddings}
    \cup {Request("update_collection", n, 0, "",
                  <<Embedding(<< <<"unique_id", "0">> >>, <<2 * Scale>>, NoMetadata),
                    Embedding(<< <<"unique_id", "1">> >>, <<2 * Scale>>, NoMetadata)>>) :
          n \in Names}
    \cup {Request(op, n, 0, "", <<>>) :
          op \in {"delete_collection", "get_collection", "get_embeddings"}, n \in Names}
    \cup {Query("A", <<Scale>>, k) : k \in {0, 1}}
    \cup {Query("B", <<Scale>>, 1)}

\* main serving on an empty store (RESTORE_DB not set).
ServerInit ==
  /\ collections = NewDB
  /\ call = NoCall
  /\ before = NewDB
  /\ prior = NoPrior
  /\ logFile = [tracked |-> FALSE, status |-> "ok", lines |-> <<>>]
  /\ restore = NoRestore
  /\ script = <<>>
  /\ server = [NoServer EXCEPT !.phase = "serving"]
  /\ tasks = NoTasks

ServerNext ==
  \E t \in Tasks :
    \/ \E r \in ServerRequests : Receive(t, r)
    \/ Lock(t)
    \/ Reject(t)
    \/ Handle(t)
    \/ BatchStep(t)

SpecServer == ServerInit /\ [][ServerNext]_vars

\* The server under fair scheduling, with few requests: a task that holds
\* the lock goes on running, a rejected task is answered, and a task that
\* finds the lock free again and again gets it.
FairRequests ==
  {Request("create_collection", "A", 1, "Euclidean", <<>>),
   Request("update_collection", "A", 0, "",
           <<Embedding(<< <<"unique_id", "0">> >>, <<2 * Scale>>, NoMetadata)>>),
   Request("get_embeddings", "A", 0, "", <<>>),
   Query("A", <<Scale>>, 0)}

FairNext ==
  \E t \in Tasks :
    \/ \E r \in FairRequests : Receive(t, r)
    \/ Lock(t)
    \/ Reject(t)
    \/ Handle(t)
    \/ BatchStep(t)

SpecServerFair ==
  /\ ServerInit
  /\ [][FairNext]_vars
  /\ \A t \in Tasks :
       /\ WF_vars(Handle(t))
       /\ WF_vars(BatchStep(t))
       /\ WF_vars(Reject(t))
       /\ SF_vars(Lock(t))

\* ---------------------------------------------------------------- startup
\* main from the construction of the store to the serving of requests.
StartupOps ==
  {Request("create_collection", "A", 1, "Euclidean", <<>>)}
    \cup {Request("insert_into_collection", "A", 0, "",
                  <<Embedding(<< <<"unique_id", u>> >>, <<2 * Scale>>,
                              SomeMetadata({<<"page", "1">>}))>>) : u \in {"0", "1"}}

StartupScripts == SeqsUpTo(StartupOps, MaxStartupLog)

StartupRequests ==
  {Request(op, "A", 0, "", <<>>) : op \in {"get_collection", "get_embeddings"}}

\* Arc::new(Mutex::new(CacheDB::new())), with RESTORE_DB set or not and an
\* output.log that is there or not.
StartupInit ==
  /\ collections = NewDB
  /\ call = NoCall
  /\ before = NewDB
  /\ prior = NoPrior
  /\ script \in StartupScripts
  /\ \E status \in {"ok", "missing"} :
       /\ status = "missing" => script = <<>>
       /\ logFile = [tracked |-> TRUE, status |-> status,
                     lines |-> [i \in DOMAIN script |-> ScriptLine(script[i])]]
  /\ restore = NoRestore
  /\ \E env \in BOOLEAN : server = [NoServer EXCEPT !.phase = "main", !.env = env]
  /\ tasks = NoTasks

\* if env::var("RESTORE_DB").is_ok(): restore_db_from_logs is called.
StartRestore ==
  /\ server.phase = "main"
  /\ server.env
  /\ server' = [server EXCEPT !.phase = "restoring"]
  /\ restore' = [NoRestore EXCEPT !.pc = "start"]
  /\ UNCHANGED <<collections, call, before, prior, logFile, script, tasks>>

\* The replay spawned on its own thread, main going on to serve.
Serve_Early ==
  /\ \/ server.phase = "main" /\ ~server.env
     \/ server.phase = "restoring"
  /\ server' = [server EXCEPT !.phase = "serving", !.serial = collections]
  /\ UNCHANGED <<collections, call, before, prior, logFile, restore, script, tasks>>

\* warp::serve(routes).run(..): reached when RESTORE_DB is not set, or when
\* restore_db_from_logs has returned; what it returned is dropped.
Serve ==
  /\ \/ server.phase = "main" /\ ~server.env
     \/ server.phase = "restoring" /\ restore.pc = "done"
  /\ server' = [server EXCEPT !.phase = "serving", !.serial = collections]
  /\ UNCHANGED <<collections, call, before, prior, logFile, restore, script, tasks>>

StartupNext ==
  \/ StartRestore
  \/ RestoreOpen
  \/ RestoreEntry
  \/ RestoreReturn
  \/ Serve
  \/ \E t \in Tasks :
       \/ \E r \in StartupRequests : Receive(t, r)
       \/ Lock(t)
       \/ Handle(t)

SpecStartup == StartupInit /\ [][StartupNext]_vars

\* ------------------------------------------------------------ properties
Present(db) == {n \in Names : db[n].present}

Returned(op) == call.state = "returned" /\ call.op = op

\* C1: in every reachable store, each stored embedding's vector has exactly
\* the length given by its collection's dimension.
C1_VectorLengthIsDimension ==
  \A n \in Present(collections) :
    \A i \in DOMAIN collections[n].embeddings :
      Len(collections[n].embeddings[i].vector) = collections[n].dimension

\* C1 happens: a batch insert returned Ok and its collection holds MaxEmb
\* embeddings, while a vector of another length was on offer.
C1_Witness ==
  /\ Returned("update_collection")
  /\ call.res = "Ok"
  /\ Len(collections[call.name].embeddings) = MaxEmb
  /\ \E v \in Vectors : Len(v) # collections[call.name].dimension

\* C2 (as stated): no collection holds two embeddings whose ids are equal as
\* mappings, ids of several keys included.
C2_IdsUniqueAsMappings ==
  \A n \in Present(collections) :
    \A i, j \in DOMAIN collections[n].embeddings :
      i # j => IdMap(collections[n].embeddings[i].id) # IdMap(collections[n].embeddings[j].id)

\* C3 (as stated): replaying the log the store wrote for its accepted
\* operations builds the store those operations built.
C3_ReplayOfWrittenLogEqualsStore ==
  call.state = "idle" => restore_db_from_logs(logFile.lines) = collections

\* What the embedding pattern of the replay reads back: one numeric
\* unique_id, a non-empty vector of non-negative numbers, metadata present.
Replayable(e) ==
  /\ Len(e.id) = 1
  /\ e.id[1][1] = "unique_id"
  /\ Digits(Tok(e.id[1][2]))
  /\ e.vector # <<>>
  /\ \A i \in DOMAIN e.vector : e.vector[i] >= 0
  /\ e.metadata.some

\* The store after operation r of a script is run on db directly.
DirectOp(db, r) ==
  CASE r.op = "create_collection" /\ r.distance \in Distances ->
         create_collection(db, r.name, r.dimension, r.distance).db
    [] r.op = "insert_into_collection" /\ Replayable(r.embeddings[1]) ->
         insert_into_collection(db, r.name, r.embeddings[1]).db
    [] r.op = "update_collection" ->
         update_collection(db, r.name, SelectSeq(r.embeddings, Replayable)).db
    [] r.op = "delete_collection" -> delete_collection(db, r.name).db
    [] OTHER -> db

RECURSIVE Direct(_, _)
Direct(ops, db) == IF ops = <<>> THEN db ELSE Direct(Tail(ops), DirectOp(db, ops[1]))

\* The inserted embeddings of a script's insert entries into name, in order.
RECURSIVE InsertedInto(_, _)
InsertedInto(ops, name) ==
  IF ops = <<>> THEN <<>>
  ELSE (IF ops[1].op = "insert_into_collection" /\ ops[1].name = name
        THEN ops[1].embeddings ELSE <<>>) \o InsertedInto(Tail(ops), name)

\* A log of the claim's shape: create A, create B, inserts of distinct
\* replayable embeddings into A and a delete of B, B's create before its delete.
C4_Shape(ops) ==
  /\ \A i \in DOMAIN ops :
       \/ ops[i].op = "create_collection" /\ ops[i].distance \in Distances
       \/ ops[i].op = "insert_into_collection" /\ Replayable(ops[i].embeddings[1])
       \/ ops[i].op = "delete_collection"
  /\ \E a, b, d \in DOMAIN ops :
       /\ ops[a].op = "create_collection" /\ ops[a].name = "A"
       /\ ops[b].op = "create_collection" /\ ops[b].name = "B"
       /\ ops[d].op = "delete_collection" /\ ops[d].name = "B"
       /\ b < d
       /\ \A i \in DOMAIN ops :
            /\ ops[i].op = "create_collection" => i \in {a, b}
            /\ ops[i].op = "delete_collection" => i = d
            /\ ops[i].op = "insert_into_collection" => a < i
  /\ \A i, j \in DOMAIN InsertedInto(ops, "A") :
       i # j => InsertedInto(ops, "A")[i].id # InsertedInto(ops, "A")[j].id

\* C4: after the replay of a log in the documented format, the store is the
\* one its entries build when run directly and in order; for a log that
\* creates A and B, inserts into A and deletes B, A holds exactly the
\* inserted embeddings in log order and B is absent.
C4_ReplayRebuildsStore ==
  (restore.pc = "done" /\ restore.result = "Ok") =>
    /\ collections = Direct(script, NewDB)
    /\ C4_Shape(script) =>
         /\ collections["A"].present
         /\ collections["A"].embeddings = InsertedInto(script, "A")
         /\ ~collections["B"].present

\* C4 happens: the replay of create A, create B, insert into A, delete B ended.
C4_Witness ==
  /\ restore.pc = "done"
  /\ restore.result = "Ok"
  /\ Len(script) = 4
  /\ C4_Shape(script)
  /\ script[4].op = "delete_collection"
  /\ Len(collections["A"].embeddings) = 1

\* Whether turn t of the replay was skipped: not parsed, or refused.
Skipped(t) == ~t.matched \/ t.res # "Ok"

C6_CreateExistingRefused ==
  (Returned("create_collection") /\ before[call.name].present) =>
    /\ call.res = "UniqueViolation"
    /\ collections = before

\* C6 happens: a create with other parameters on a collection that holds
\* embeddings was refused.
C6_Witness ==
  /\ Returned("create_collection")
  /\ call.res = "UniqueViolation"
  /\ before[call.name].embeddings # <<>>
  /\ call.dimension # before[call.name].dimension
  /\ call.distance # before[call.name].distance

\* C7: delete_collection on a name that exists removes the collection with
\* its embeddings: get_collection and get_embeddings then return absent, and
\* a later create_collection of the name gives a collection with no embeddings.
C7_DeleteRemoves ==
  /\ (Returned("delete_collection") /\ before[call.name].present) =>
       /\ call.res = "Ok"
       /\ ~collections[call.name].present
       /\ get_collection(collections, call.name).res = "None"
       /\ get_embeddings(collections, call.name).res = "None"
  /\ (call.state = "returned" /\ call.op \in {"get_collection", "get_embeddings"}
        /\ prior.op = "delete_collection" /\ prior.name = call.name) =>
       (call.res = "None" /\ call.ret = Absent)
  /\ (Returned("create_collection") /\ prior.op = "delete_collection"
        /\ prior.name = call.name) =>
       /\ call.res = "Ok"
       /\ collections[call.name].embeddings = <<>>
       /\ call.ret.embeddings = <<>>

\* C7 happens: a collection that held embeddings was deleted.
C7_Witness ==
  /\ Returned("delete_collection")
  /\ call.res = "Ok"
  /\ before[call.name].embeddings # <<>>

\* C8: delete_collection on a name that does not exist returns NotFound and
\* leaves the store unchanged.
C8_DeleteMissingRefused ==
  (Returned("delete_collection") /\ ~before[call.name].present) =>
    /\ call.res = "NotFound"
    /\ collections = before

\* C8 happens: a delete of a missing name was refused in a store that holds
\* another collection.
C8_Witness ==
  /\ Returned("delete_collection")
  /\ ~before[call.name].present
  /\ Present(before) # {}

\* C9: create_collection of a new name followed by delete_collection of that
\* name: both succeed, and the store is the one before the create.
C9_CreateThenDeleteRestores ==
  /\ (Returned("create_collection") /\ ~before[call.name].present) => call.res = "Ok"
  /\ (Returned("delete_collection") /\ prior.op = "create_collection"
        /\ prior.name = call.name) =>
       /\ ~prior.from[call.name].present
       /\ call.res = "Ok"
       /\ collections = prior.from

\* C9 happens: the delete right after the create returned, in a store that
\* holds another collection with embeddings.
C9_Witness ==
  /\ Returned("delete_collection")
  /\ prior.op = "create_collection"
  /\ prior.name = call.name
  /\ \E n \in Present(collections) : collections[n].embeddings # <<>>

\* C10: a successful single insert into a collection whose distance is not
\* cosine appends exactly the given embedding (id, vector, metadata) at the
\* end of the collection's list, whose length grows by one.
C10_InsertAppendsGiven ==
  (Returned("insert_into_collection") /\ call.res = "Ok"
     /\ before[call.name].distance # "Cosine") =>
    LET old == before[call.name].embeddings
        new == collections[call.name].embeddings
    IN /\ Len(new) = Len(old) + 1
       /\ SubSeq(new, 1, Len(old)) = old
       /\ new[Len(new)] = call.embeddings[1]

\* C10 happens: an embedding was inserted behind another one in a
\* collection that is not cosine.
C10_Witness ==
  /\ Returned("insert_into_collection")
  /\ call.res = "Ok"
  /\ before[call.name].distance # "Cosine"
  /\ before[call.name].embeddings # <<>>

\* Whether collection c holds an embedding whose id is the mapping of id.
HoldsId(c, id) == \E i \in DOMAIN c.embeddings : IdMap(c.embeddings[i].id) = IdMap(id)

\* Whether collection c holds an embedding whose id is id, pairs in the same order.
HoldsSameId(c, id) == \E i \in DOMAIN c.embeddings : c.embeddings[i].id = id

\* C11 (as stated): a single insert of an embedding whose id equals the id of
\* an embedding already in the collection fails with UniqueViolation and
\* leaves the collection unchanged.
C11_DuplicateInsertUniqueViolation ==
  (Returned("insert_into_collection") /\ before[call.name].present
     /\ HoldsId(before[call.name], call.embeddings[1].id)) =>
    /\ call.res = "UniqueViolation"
    /\ collections = before

\* C12 (as stated): an insert whose vector length differs from the
\* collection's dimension fails with DimensionMismatch and leaves the store
\* unchanged.
C12_MismatchIsDimensionMismatch ==
  (Returned("insert_into_collection") /\ before[call.name].present
     /\ Len(call.embeddings[1].vector) # before[call.name].dimension) =>
    /\ call.res = "DimensionMismatch"
    /\ collections = before

\* C12 (amended): an insert, or a batch of one item, whose vector length
\* differs from the collection's dimension fails and leaves the store
\* unchanged: with DimensionMismatch, unless the id check, which comes first,
\* finds the id among the stored ones and gives its own error.
C12_MismatchRefused ==
  (call.state = "returned" /\ call.op \in {"insert_into_collection", "update_collection"}
     /\ Len(call.embeddings) = 1 /\ before[call.name].present
     /\ Len(call.embeddings[1].vector) # before[call.name].dimension) =>
    /\ call.res =
         IF ~HoldsSameId(before[call.name], call.embeddings[1].id) THEN "DimensionMismatch"
         ELSE IF call.op = "insert_into_collection" THEN "EmbeddingUniqueViolation"
         ELSE "UniqueViolation"
    /\ collections = before

\* C12 happens: an insert of a new id with a vector of the wrong length into
\* a collection that holds embeddings was refused with DimensionMismatch.
C12_Witness ==
  /\ Returned("insert_into_collection")
  /\ call.res = "DimensionMismatch"
  /\ before[call.name].embeddings # <<>>
  /\ Len(call.embeddings[1].vector) # before[call.name].dimension

\* C13: a single insert or a batch insert naming a collection that does not
\* exist fails with NotFound, creates no collection and leaves the store
\* unchanged.
C13_InsertIntoMissingRefused ==
  (call.state = "returned" /\ call.op \in {"insert_into_collection", "update_collection"}
     /\ ~before[call.name].present) =>
    /\ call.res = "NotFound"
    /\ ~collections[call.name].present
    /\ collections = before

\* C13 happens: a batch of several items for a missing collection was
\* refused in a store that holds another collection.
C13_Witness ==
  /\ Returned("update_collection")
  /\ ~before[call.name].present
  /\ Len(call.embeddings) = MaxBatch
  /\ Present(before) # {}

\* The embedding as collection c stores it.
StoredAs(c, e) ==
  IF c.distance = "Cosine" THEN [e EXCEPT !.vector = normalize(e.vector)] ELSE e

\* Items 1..n of a batch as collection c stores them.
StoredPrefix(c, batch, n) == [j \in 1..n |-> StoredAs(c, batch[j])]

\* A batch all of whose items are valid for collection c: vectors of its
\* dimension, ids that differ as mappings from each other and from c's.
AllValid(c, batch) ==
  /\ \A i \in DOMAIN batch : Len(batch[i].vector) = c.dimension
  /\ \A i \in DOMAIN batch : ~HoldsId(c, batch[i].id)
  /\ \A i, j \in DOMAIN batch : i # j => IdMap(batch[i].id) # IdMap(batch[j].id)

\* C14: a batch insert in which every item is valid succeeds and appends all
\* items, in batch order, after the embeddings already in the collection.
C14_ValidBatchAppendsAll ==
  (Returned("update_collection") /\ before[call.name].present
     /\ AllValid(before[call.name], call.embeddings)) =>
    /\ call.res = "Ok"
    /\ collections =
         [before EXCEPT ![call.name].embeddings =
            @ \o StoredPrefix(before[call.name], call.embeddings, Len(call.embeddings))]

\* C14 happens: a valid batch of two different items went into a collection
\* that held an embedding.
C14_Witness ==
  /\ Returned("update_collection")
  /\ call.res = "Ok"
  /\ before[call.name].embeddings # <<>>
  /\ Len(call.embeddings) = 2
  /\ AllValid(before[call.name], call.embeddings)

\* Item i of a batch repeats an id, pairs in the same order, of collection c
\* or of an item before it.
RepeatsAt(c, batch, i) ==
  HoldsSameId(c, batch[i].id) \/ \E j \in 1..(i - 1) : batch[j].id = batch[i].id

\* Item i of a batch fails one of the two checks.
FailsAt(c, batch, i) == RepeatsAt(c, batch, i) \/ Len(batch[i].vector) # c.dimension

\* Item i is the first item of the batch that fails.
FirstFailure(c, batch, i) ==
  FailsAt(c, batch, i) /\ \A j \in 1..(i - 1) : ~FailsAt(c, batch, j)

\* C15: batch insert is not atomic: when item i is the first that fails
\* (duplicate id or dimension mismatch), the items before it are appended and
\* stay, the operation returns that item's error, and no item after it is
\* inserted, valid or not.
C15_BatchKeepsPrefix ==
  (Returned("update_collection") /\ before[call.name].present) =>
    \A i \in DOMAIN call.embeddings :
      FirstFailure(before[call.name], call.embeddings, i) =>
        /\ call.res = IF RepeatsAt(before[call.name], call.embeddings, i)
                      THEN "UniqueViolation" ELSE "DimensionMismatch"
        /\ collections =
             [before EXCEPT ![call.name].embeddings =
                @ \o StoredPrefix(before[call.name], call.embeddings, i - 1)]

\* C15 happens: the second of three items failed, with a valid item on each
\* side of it, in a collection that held an embedding.
C15_Witness ==
  /\ Returned("update_collection")
  /\ before[call.name].embeddings # <<>>
  /\ Len(call.embeddings) = 3
  /\ FirstFailure(before[call.name], call.embeddings, 2)
  /\ AllValid(before[call.name], <<call.embeddings[1], call.embeddings[3]>>)
  /\ Len(collections[call.name].embeddings) = Len(before[call.name].embeddings) + 1

\* Item i of a batch has the id, as a mapping, of an embedding of collection
\* c or of an item before it.
SameMappingAt(c, batch, i) ==
  HoldsId(c, batch[i].id) \/ \E j \in 1..(i - 1) : IdMap(batch[j].id) = IdMap(batch[i].id)

\* C16 (as stated): in a batch whose vectors all have the collection's
\* dimension, the first item whose id is that of a stored embedding or of an
\* item before it makes the batch fail with UniqueViolation, at that item.
C16_BatchDuplicateRefused ==
  (Returned("update_collection") /\ before[call.name].present
     /\ \A i \in DOMAIN call.embeddings :
          Len(call.embeddings[i].vector) = before[call.name].dimension) =>
    \A i \in DOMAIN call.embeddings :
      (/\ SameMappingAt(before[call.name], call.embeddings, i)
       /\ \A j \in 1..(i - 1) : ~SameMappingAt(before[call.name], call.embeddings, j)) =>
        /\ call.res = "UniqueViolation"
        /\ Len(collections[call.name].embeddings)
             = Len(before[call.name].embeddings) + i - 1

\* The score of embedding i of collection c against query q.
ScoreOf(c, i, q) ==
  distance_fn(c.distance, c.embeddings[i].vector, q, get_cache_attr(c.distance, q))

\* The places of embedding i of collection c in the results.
PlacesOf(c, i, results) == {j \in DOMAIN results : results[j].embedding = c.embeddings[i]}

\* A similarity call on a collection that exists has returned or panicked.
Queried ==
  Returned("get_similarity") /\ collections[call.name].present

\* C17 (as stated): get_similarity returns exactly min(k, number of
\* embeddings) results, no embedding twice: every embedding once when k is
\* larger than the collection, none for an empty collection.
C17_ResultCountIsMin ==
  Queried =>
    LET c == collections[call.name]
    IN /\ call.res = "Ok"
       /\ Len(call.ret) = Min({call.k, Len(c.embeddings)})
       /\ \A i \in DOMAIN c.embeddings : Cardinality(PlacesOf(c, i, call.ret)) <= 1

\* C18 (as stated): get_similarity with k = 0 returns an empty result for
\* every collection, the ones that hold embeddings included.
C18_ZeroKIsEmpty ==
  (Queried /\ call.k = 0) => (call.res = "Ok" /\ call.ret = <<>>)

\* C19: the results of get_similarity are in ascending order of score, each
\* with the score of its embedding, and every embedding left out has a
\* score no smaller than the largest score returned.
C19_ResultsAscending ==
  (Queried /\ call.res = "Ok") =>
    LET c == collections[call.name]
    IN /\ \A j \in DOMAIN call.ret :
            \E i \in DOMAIN c.embeddings :
              /\ call.ret[j].embedding = c.embeddings[i]
              /\ call.ret[j].score = ScoreOf(c, i, call.query_vector)
       /\ \A j \in 1..(Len(call.ret) - 1) : call.ret[j].score <= call.ret[j + 1].score
       /\ \A i \in DOMAIN c.embeddings :
            (PlacesOf(c, i, call.ret) = {} /\ call.ret # <<>>) =>
              ScoreOf(c, i, call.query_vector) >= call.ret[Len(call.ret)].score

\* C19 happens: the top two of three embeddings with three different scores
\* were returned, the last inserted first and the first inserted left out.
C19_Witness ==
  /\ Queried
  /\ call.res = "Ok"
  /\ call.k = 2
  /\ Len(collections[call.name].embeddings) = 3
  /\ call.ret[1].score < call.ret[2].score
  /\ call.ret[1].embedding = collections[call.name].embeddings[3]
  /\ PlacesOf(collections[call.name], 1, call.ret) = {}
  /\ ScoreOf(collections[call.name], 1, call.query_vector) > call.ret[2].score

C21_SameResultInEveryOrder ==
  Queried =>
    \A order \in Orders(Len(collections[call.name].embeddings)) :
      LET other == get_similarity_handler(collections, call.name, call.query_vector,
                                          call.k, order)
      IN other.res = call.res /\ other.ret = call.ret

\* C21 happens: a query over three embeddings, two of them with one score,
\* returned two results.
C21_Witness ==
  /\ Queried
  /\ call.res = "Ok"
  /\ Len(collections[call.name].embeddings) = 3
  /\ Len(call.ret) = 2
  /\ call.ret[1].score = call.ret[2].score
  /\ \E i \in 1..3 :
       ScoreOf(collections[call.name], i, call.query_vector) # call.ret[1].score

\* C22 (as stated): a query whose vector length differs from the
\* collection's dimension is rejected with DimensionMismatch and returns no
\* ranked results.
C22_QueryMismatchRefused ==
  (Queried /\ Len(call.query_vector) # collections[call.name].dimension) =>
    (call.res = "DimensionMismatch" /\ call.ret = <<>>)

\* C29 (as stated): replay accepts an embedding whose metadata is absent: a
\* log of a create and an insert of an embedding (id {unique_id: 0}) with
\* no metadata restores the collection with that embedding, metadata absent.
C29_AbsentMetadataRestored ==
  (/\ restore.pc = "done"
   /\ restore.result = "Ok"
   /\ Len(script) = 2
   /\ script[1] = Request("create_collection", "A", 1, "Euclidean", <<>>)
   /\ script[2].op = "insert_into_collection"
   /\ script[2].embeddings[1].id = << <<"unique_id", "0">> >>
   /\ script[2].embeddings[1].metadata = NoMetadata) =>
    collections["A"].embeddings = script[2].embeddings

\* C30 (as stated): every collection in the store has a dimension of at
\* least 1, whatever was asked of create_collection.
C30_DimensionPositive ==
  \A n \in Present(collections) : collections[n].dimension >= 1

Mutating ==
  {"create_collection", "insert_into_collection", "update_collection", "delete_collection"}

\* Task t has been answered by its handler (not turned away at the lock).
Answered(t) == tasks[t].pc = "done" /\ tasks[t].body # "rejection"

\* C23: a request naming a collection that does not exist is answered
\* without changing the store: get_collection, get_embeddings,
\* delete_collection and the batch insert with status 404, get_similarity
\* with status 200 and the text "Collection not found".
C23_MissingCollectionAnswered ==
  [][\A t \in Tasks :
       (/\ tasks[t].pc = "locked"
        /\ tasks'[t].pc = "done"
        /\ ~collections[tasks[t].req.name].present
        /\ tasks[t].req.op \in Readers \cup {"delete_collection", "update_collection"}) =>
         /\ collections' = collections
         /\ IF tasks[t].req.op = "get_similarity"
            THEN tasks'[t].status = 200 /\ tasks'[t].body = "Collection not found"
            ELSE tasks'[t].status = 404]_vars

\* C23 happens: with no collection B, a similarity query on B was answered
\* "Collection not found" and a batch insert into B was answered 404.
C23_Witness ==
  /\ ~collections["B"].present
  /\ \E t, u \in Tasks :
       /\ Answered(t) /\ tasks[t].req.op = "get_similarity" /\ tasks[t].req.name = "B"
       /\ tasks[t].status = 200 /\ tasks[t].body = "Collection not found"
       /\ Answered(u) /\ tasks[u].req.op = "update_collection" /\ tasks[u].req.name = "B"
       /\ tasks[u].status = 404 /\ tasks[u].seen.res = "NotFound"

\* C24: at most one request is inside a store operation at any time, and
\* whenever no request is inside, the store is what the requests give when
\* executed one at a time in the order they took the lock.
C24_OneAtATime ==
  /\ Cardinality({t \in Tasks : tasks[t].pc = "locked"}) <= 1
  /\ (\A t \in Tasks : tasks[t].pc # "locked") => collections = server.serial

\* C24 happens: two mutating requests were both answered with success, one
\* of them having waited while the other was in the store.
C24_Witness ==
  \E t, u \in Tasks :
    /\ t # u
    /\ Answered(t) /\ Answered(u)
    /\ tasks[t].req.op \in Mutating /\ tasks[u].req.op \in Mutating
    /\ tasks[t].seen.res = "Ok" /\ tasks[u].seen.res = "Ok"
    /\ tasks[t].overlapped = tasks[u].req.op

\* C25: a read-only request running concurrently with a batch insert is
\* given the collection as it was before the batch started or as it is
\* after the batch returned, never a partially applied batch.
C25_NoPartialBatchSeen ==
  \A t \in Tasks :
    (Answered(t) /\ tasks[t].req.op \in Readers) => tasks[t].seen \in tasks[t].allowed

\* C25 happens: a reader that waited while a batch insert was in the store
\* was given the collection with the whole batch.
C25_Witness ==
  \E t \in Tasks :
    /\ Answered(t)
    /\ tasks[t].req.op \in Readers
    /\ tasks[t].overlapped = "update_collection"
    /\ tasks[t].seen.res = "Ok"
    /\ \/ tasks[t].req.op = "get_similarity" /\ Len(tasks[t].seen.ret) = 1
       \/ tasks[t].req.op # "get_similarity" /\ Len(tasks[t].seen.ret.embeddings) = 2

\* C26: once a request has panicked while holding the store lock, every
\* request that comes later to a handler of the store is rejected (it never
\* enters the store) and the store contents never change again.
C26_PoisonedRejectsAll ==
  server.poisoned =>
    /\ collections = server.frozen
    /\ \A t \in Tasks :
         tasks[t].late =>
           /\ tasks[t].pc \in {"waiting", "done"}
           /\ tasks[t].pc = "done" => tasks[t].status = 404 /\ tasks[t].body = "rejection"

\* C26 happens: a similarity query panicked under the lock, and a mutating
\* request that came after it was rejected.
C26_Witness ==
  /\ server.poisoned
  /\ \E t, u \in Tasks :
       /\ tasks[u].pc = "done" /\ tasks[u].body = "panic"
       /\ tasks[t].late /\ tasks[t].pc = "done" /\ tasks[t].body = "rejection"
       /\ tasks[t].req.op \in Mutating

\* The store a replay of the log the server started with builds.
Restored ==
  IF server.env /\ logFile.status = "ok"
  THEN restore_db_from_logs([i \in DOMAIN script |-> ScriptLine(script[i])])
  ELSE NewDB

\* C27: with RESTORE_DB set the whole replay has run to completion before
\* any request is accepted, so every request is given the restored store;
\* with RESTORE_DB not set no replay happens and the store starts empty.
C27_ReplayBeforeServing ==
  /\ (\E t \in Tasks : tasks[t].pc # "idle") =>
       restore.pc = (IF server.env THEN "done" ELSE "off")
  /\ \A t \in Tasks : Answered(t) => tasks[t].seen = View(Restored, tasks[t].req)
  /\ ~server.env => (restore.pc = "off" /\ collections = NewDB)

\* C27 happens: with RESTORE_DB set and a log of a collection with two
\* embeddings, a request was given both embeddings.
C27_Witness ==
  /\ server.env
  /\ \E t \in Tasks :
       /\ Answered(t)
       /\ tasks[t].seen.res = "Ok"
       /\ Len(tasks[t].seen.ret.embeddings) = 2

\* C28 (as stated): with RESTORE_DB set and a log file that cannot be
\* opened, the server does not go on to serve requests on an empty store.
C28_UnopenableLogStopsStartup ==
  (server.env /\ logFile.status = "missing") => server.phase # "serving"

\* An insert or a batch insert has returned.
Inserted == call.state = "returned" /\ call.op \in {"insert_into_collection", "update_collection"}

\* C31: in a Cosine collection every vector stored by a single or a batch
\* insert is the normalization of the inserted vector, of unit L2 norm (to
\* the rounding of its components, one unit each) or the zero vector ([2]
\* is stored as [1]); under every other distance the vector is stored as
\* given.
C31_CosineStoresNormalized ==
  Inserted =>
    LET c == collections[call.name]
        old == before[call.name].embeddings
    IN \A i \in (Len(old) + 1)..Len(c.embeddings) :
         LET given == call.embeddings[i - Len(old)].vector
             kept == c.embeddings[i].vector
         IN IF c.distance = "Cosine"
            THEN /\ kept = normalize(given)
                 /\ \/ Norm(kept) \in (Scale - Len(kept))..Scale
                    \/ \A j \in DOMAIN kept : kept[j] = 0
                 /\ given = <<2 * Scale>> => kept = <<Scale>>
            ELSE kept = given

\* C31 happens: a batch of two embeddings with vector [2] went into a
\* Cosine collection.
C31_Witness ==
  /\ Returned("update_collection")
  /\ call.res = "Ok"
  /\ collections[call.name].distance = "Cosine"
  /\ Len(call.embeddings) = 2
  /\ Len(collections[call.name].embeddings) = Len(before[call.name].embeddings) + 2
  /\ \A j \in 1..2 : call.embeddings[j].vector = <<2 * Scale>>

\* C32 (as stated): an insert into an existing collection is rejected as a
\* duplicate if and only if its id equals, as an unordered key-value set,
\* the id of a stored embedding; with a fresh id and a vector of the
\* collection's dimension it is accepted.
C32_DuplicateIffSameMapping ==
  (Returned("insert_into_collection") /\ before[call.name].present) =>
    LET c == before[call.name]
        e == call.embeddings[1]
    IN /\ call.res = "EmbeddingUniqueViolation" <=> HoldsId(c, e.id)
       /\ (~HoldsId(c, e.id) /\ Len(e.vector) = c.dimension) => call.res = "Ok"
       /\ HoldsId(c, e.id) => call.res # "Ok"

\* C33 (as stated): an embedding with both a duplicate id and a wrong vector
\* length is rejected with the duplicate-id error, not DimensionMismatch, by
\* the single insert and by the batch insert.
C33_DuplicateBeforeMismatch ==
  (/\ Inserted
   /\ Len(call.embeddings) = 1
   /\ before[call.name].present
   /\ HoldsId(before[call.name], call.embeddings[1].id)
   /\ Len(call.embeddings[1].vector) # before[call.name].dimension) =>
    call.res = IF call.op = "insert_into_collection" THEN "EmbeddingUniqueViolation"
               ELSE "UniqueViolation"

\* C34: a collection in the store stays there, with the dimension and the
\* distance it was created with, through every step that is not a
\* delete_collection on its name.
C34_CollectionLivesUntilDeleted ==
  [][\A n \in Names :
       collections[n].present =>
         \/ /\ collections'[n].present
            /\ collections'[n].dimension = collections[n].dimension
            /\ collections'[n].distance = collections[n].distance
         \/ call.state = "called" /\ call.op = "delete_collection" /\ call.name = n]_vars

\* C34 happens: a create_collection on the name of a collection that holds
\* embeddings, asking for another dimension or distance, has returned.
C34_Witness ==
  /\ Returned("create_collection")
  /\ before[call.name].present
  /\ before[call.name].embeddings # <<>>
  /\ \/ call.dimension # before[call.name].dimension
     \/ call.distance # before[call.name].distance

\* Sequence s is a prefix of sequence t.
IsPrefix(s, t) == Len(s) <= Len(t) /\ SubSeq(t, 1, Len(s)) = s

\* C35: for every insert and batch insert, successful or failed, the
\* embeddings the collection held before are a prefix of those it holds
\* after: none removed, modified or reordered.
C35_AppendOnly ==
  (Inserted /\ before[call.name].present) =>
    /\ collections[call.name].present
    /\ IsPrefix(before[call.name].embeddings, collections[call.name].embeddings)

\* C35 happens: a batch insert into a collection that held an embedding
\* failed after it had added one.
C35_Witness ==
  /\ Returned("update_collection")
  /\ call.res # "Ok"
  /\ before[call.name].embeddings # <<>>
  /\ Len(collections[call.name].embeddings) > Len(before[call.name].embeddings)

\* C36: a store operation changes at most the collection it names, and
\* get_collection, get_embeddings and get_similarity change nothing.
C36_OnlyTheNamedCollection ==
  call.state = "returned" =>
    /\ \A n \in Names \ {call.name} : collections[n] = before[n]
    /\ call.op \in {"get_collection", "get_embeddings", "get_similarity"} =>
         collections = before

\* C36 happens: a delete_collection succeeded while the other collection
\* held embeddings.
C36_Witness ==
  /\ Returned("delete_collection")
  /\ call.res = "Ok"
  /\ \E n \in Names \ {call.name} : collections[n].present /\ collections[n].embeddings # <<>>

RECURSIVE InsertEach(_, _, _)
\* Single inserts of the items in order, stopping at the first that fails:
\* the store they leave and whether one failed.
InsertEach(db, name, items) ==
  IF items = <<>> THEN [db |-> db, failed |-> FALSE]
  ELSE LET out == insert_into_collection(db, name, items[1])
       IN IF out.res # "Ok" THEN [db |-> out.db, failed |-> TRUE]
          ELSE InsertEach(out.db, name, Tail(items))

\* C37 (as stated): a batch insert leaves the store as single inserts of its
\* items in order, stopped at the first failure, leave it, and it fails
\* exactly when one of those single inserts fails.
C37_BatchIsInsertsInOrder ==
  Returned("update_collection") =>
    LET each == InsertEach(before, call.name, call.embeddings)
    IN /\ collections = each.db
       /\ call.res # "Ok" <=> each.failed

\* C37 (amended): a batch insert leaves the store as single inserts of its
\* items in order, stopped at the first failure, leave it; it fails exactly
\* when one of those single inserts fails or the collection does not exist
\* (an empty batch into a missing collection fails with NotFound).
C37_BatchIsInsertsOrMissing ==
  Returned("update_collection") =>
    LET each == InsertEach(before, call.name, call.embeddings)
    IN /\ collections = each.db
       /\ call.res # "Ok" <=> (each.failed \/ ~before[call.name].present)
       /\ (call.embeddings = <<>> /\ ~before[call.name].present) => call.res = "NotFound"

\* C37 happens: a batch of three items whose second item failed went into a
\* collection that held an embedding, and its first item stayed.
C37_Witness ==
  /\ Returned("update_collection")
  /\ call.res # "Ok"
  /\ Len(call.embeddings) = 3
  /\ before[call.name].embeddings # <<>>
  /\ Len(collections[call.name].embeddings) = Len(before[call.name].embeddings) + 1

\* The candidates of a query on collection c: score and index (from 0) of
\* every embedding, in index order.
Candidates(c, q) == [i \in DOMAIN c.embeddings |-> ScoreIndex(ScoreOf(c, i, q), i - 1)]

\* The heap after the first j turns of the selection loop.
HeapAfter(c, q, k, j) ==
  HeapLoop([set |-> {}, panicked |-> FALSE], SubSeq(Candidates(c, q), 1, j), k)

\* C38: after every step of the selection loop the heap holds at most k
\* candidates, no index twice; when the loop ends it holds exactly the
\* min(k, n) least candidates under the comparator; each result pairs the
\* score of a candidate with the embedding stored at that candidate's index.
C38_HeapHoldsKLeast ==
  Queried =>
    LET c == collections[call.name]
        n == Len(c.embeddings)
        all == {Candidates(c, call.query_vector)[i] : i \in 1..n}
        last == HeapAfter(c, call.query_vector, call.k, n)
    IN /\ \A j \in 0..n :
            LET heap == HeapAfter(c, call.query_vector, call.k, j)
            IN ~heap.panicked =>
                 /\ Cardinality(heap.set) <= call.k
                 /\ \A x, y \in heap.set : x.index = y.index => x = y
       /\ ~last.panicked =>
            /\ call.res = "Ok"
            /\ Cardinality(last.set) = Min({call.k, n})
            /\ last.set \subseteq all
            /\ \A x \in last.set : \A y \in all \ last.set : ScoreIndexLess(x, y)
            /\ Len(call.ret) = Cardinality(last.set)
            /\ \A x \in last.set :
                 \E j \in DOMAIN call.ret :
                   /\ call.ret[j].score = x.score
                   /\ call.ret[j].embedding = c.embeddings[x.index + 1]

\* C38 happens: the top two of three embeddings were returned, the last
\* inserted among them (pushed on a full heap) and an earlier one left out
\* (popped).
C38_Witness ==
  /\ Queried
  /\ call.res = "Ok"
  /\ call.k = 2
  /\ Len(collections[call.name].embeddings) = 3
  /\ Len(call.ret) = 2
  /\ PlacesOf(collections[call.name], 3, call.ret) # {}
  /\ \E i \in 1..2 : PlacesOf(collections[call.name], i, call.ret) = {}

\* C39 (as stated): replay only reads the log: when restore_db_from_logs
\* has returned, output.log holds the lines it held at startup, so a second
\* replay reads the entries the first one read.
C39_ReplayLeavesLogUnchanged ==
  restore.pc = "done" =>
    /\ logFile.lines = [i \in DOMAIN script |-> ScriptLine(script[i])]
    /\ logFile.status = "ok" => split_by_date(Concat(logFile.lines)) = restore.entries

\* C40 (as stated): store operations always finish: under fair scheduling
\* every pending request eventually gets the lock, releases it and receives
\* a response.
C40_EveryRequestAnswered ==
  \A t \in Tasks :
    (tasks[t].pc = "waiting") ~>
      (tasks[t].pc = "done" /\ tasks[t].body # "panic" /\ server.holder # t)

====
